---------------------------- MODULE Spec2Model ----------------------------
(***************************************************************************)
(* A model of the diff / sign / chunk-location core of coc-git.            *)
(*                                                                         *)
(* Text is modelled character by character: a string is a sequence of      *)
(* one-character strings, so that split, trim, slice and parseInt are      *)
(* computed the way the JavaScript source computes them.                   *)
(*                                                                         *)
(* The specifications of this module:                                      *)
(*   SpecParse  parseDiff and getStagedChunks as pure functions of a diff  *)
(*              text                                                       *)
(*   Spec       one GitBuffer: diffDocument (hunks, signs, status) and     *)
(*              getChunk under a moving cursor                             *)
(*   SpecStage  one GitBuffer and the index: chunkStage and chunkUnstage   *)
(*   SpecUndo   one GitBuffer and the text of its buffer: chunkUndo        *)
(*   SpecConflict  one GitBuffer of an unmerged file: parseConflicts       *)
(*   SpecMarkers   the same under edits of the text: the hasConflicts flag *)
(*   SpecGutters   one GitBuffer whose diff changes: refresh, save and     *)
(*                 the toggling of the gutters                             *)
(*   SpecScan      one GitBuffer with two hunks: chunkUnstage's lookup     *)
(*   SpecKeep      the buffer of an unmerged file: keepCurrent,            *)
(*                 keepIncoming, keepBoth                                  *)
(*   SpecJump      the same buffer: nextConflict and prevConflict          *)
(*   SpecAsync     one GitBuffer between its awaits: refreshes, toggles,   *)
(*                 answers of getDiff, dispose                             *)
(*   SpecLive      SpecAsync without dispose, under weak fairness          *)
(*   SpecManager   the buffer manager and one document: open, change,      *)
(*                 close, createBuffer                                     *)
(***************************************************************************)
EXTENDS Integers, Sequences, FiniteSets, TLC

VARIABLES
  diffStr,       \* SpecParse: the text handed to parseDiff
  parsed,        \* SpecParse: what the parseDiff call produced
  staged,        \* SpecParse: what the getStagedChunks call produced
  gitOutput,     \* Spec: what the diff source finds for this buffer
  diffs,         \* GitBuffer.diffs
  currentSigns,  \* GitBuffer.currentSigns
  gitStatus,     \* GitBuffer.gitStatus (the b:coc_git_status text)
  placedSigns,   \* the signs placed in the sign column of the buffer
  line,          \* the cursor line of the last command (0: no command yet)
  chunk,         \* the index in diffs of the hunk getChunk returned (0: undefined)
  config,        \* GitBuffer.config: enableGutters, realtimeGutters, conflict.enabled
  stagedOutput,  \* what git diff --staged prints for the file of the buffer
  lastCommand,   \* the chunk command run last ("" before the first)
  gitApply,      \* the call of git apply the last command made, if any, and its input
  errorMessage,  \* the text the last command passed to window.showErrorMessage ("" for none)
  rejected,      \* the promise of the last command was rejected (it threw)
  refreshArmed,  \* the timer of the debounced refresh is running
  reference,     \* the lines of the staged content of the file
  docLines,      \* the lines of the buffer (doc.textDocument.lines)
  hasConflicts,  \* GitBuffer.hasConflicts
  conflicts,     \* GitBuffer.conflicts
  cursor,        \* the cursor line after the last jump command (0: none has run)
  wrapscan,      \* the value of the wrapscan option as of the last jump command
  warningMessage, \* the text the last command passed to window.showWarningMessage ("" for none)
  disposed,      \* GitBuffer._disposed
  waiting,       \* the number of calls of _refresh that await mutex.acquire()
  inflight,      \* the calls of diffDocument that await getDiff, in the order they started
  latest,        \* the answer of the diff source the call of diffDocument started last has read
  replaced,      \* a call of diffDocument has replaced hunks written by one started after it
  docOpen,       \* the manager: workspace.getDocument(uri) finds the document
  pending,       \* the manager: the calls of service.createBuffer that have not resolved
  created,       \* the manager: for each GitBuffer made for the document, whether it is disposed
  mapEntry       \* the manager: the GitBuffer that buffers holds for the document (0: none)

commandVars == <<stagedOutput, lastCommand, gitApply, errorMessage, rejected, refreshArmed>>

docVars == <<reference, docLines, hasConflicts, conflicts>>

asyncVars == <<disposed, waiting, inflight, latest, replaced>>

managerVars == <<docOpen, pending, created, mapEntry>>

extVars == <<cursor, wrapscan, warningMessage, asyncVars, managerVars>>

vars ==
  <<diffStr, parsed, staged, gitOutput, diffs, currentSigns, gitStatus, placedSigns, line, chunk,
    config, commandVars, docVars, extVars>>

parseVars == <<diffStr, parsed, staged>>
bufferVars ==
  <<gitOutput, diffs, currentSigns, gitStatus, placedSigns, line, chunk, config, commandVars,
    docVars, extVars>>

---------------------------------------------------------------------------
(* Bounds of the model.                                                    *)

\* the largest count written in a generated hunk header
MaxCount == 2
\* the largest start line written in a generated hunk header
MaxStart == 2
\* the number of lines of the hunk area of a diff text built from LineAlphabet
MaxLines == 4
\* the number of lines of the staged content of the file
MaxRef == 3

---------------------------------------------------------------------------
(* Characters and JavaScript string primitives.                            *)

DigitChars == <<"0", "1", "2", "3", "4", "5", "6", "7", "8", "9">>

IsDigit(c) == \E i \in 1..10 : DigitChars[i] = c

DigitVal(c) == (CHOOSE i \in 1..10 : DigitChars[i] = c) - 1

\* /\s/ restricted to the white space a diff line can hold
IsSpace(c) == c \in {" ", "\t"}

\* parseInt and the arithmetic on its results: NaN is the one non-integer
\* value parseInt returns; it is kept outside the naturals.
NaN == -1

IsNum(x) == x # NaN

JsAdd(x, y) == IF x = NaN \/ y = NaN THEN NaN ELSE x + y

JsSub(x, y) == IF x = NaN \/ y = NaN THEN NaN ELSE x - y

JsMin(x, y) == IF x = NaN \/ y = NaN THEN NaN ELSE IF x < y THEN x ELSE y

\* String.prototype.startsWith
StartsWith(s, p) == Len(s) >= Len(p) /\ SubSeq(s, 1, Len(p)) = p

\* String.prototype.slice(1)
Slice1(s) == IF Len(s) = 0 THEN <<>> ELSE Tail(s)

\* String.prototype.split(ch) for a one-character separator
RECURSIVE SplitFrom(_, _, _, _)
SplitFrom(s, ch, i, cur) ==
  IF i > Len(s) THEN <<cur>>
  ELSE IF s[i] = ch THEN <<cur>> \o SplitFrom(s, ch, i + 1, <<>>)
  ELSE SplitFrom(s, ch, i + 1, Append(cur, s[i]))

SplitChar(s, ch) == SplitFrom(s, ch, 1, <<>>)

\* the least index >= i at which p occurs in s, or 0
RECURSIVE IndexFrom(_, _, _)
IndexFrom(s, p, i) ==
  IF i + Len(p) - 1 > Len(s) THEN 0
  ELSE IF SubSeq(s, i, i + Len(p) - 1) = p THEN i
  ELSE IndexFrom(s, p, i + 1)

\* String.prototype.trim
RECURSIVE TrimLeft(_)
TrimLeft(s) == IF Len(s) > 0 /\ IsSpace(s[1]) THEN TrimLeft(Tail(s)) ELSE s

RECURSIVE TrimRight(_)
TrimRight(s) ==
  IF Len(s) > 0 /\ IsSpace(s[Len(s)]) THEN TrimRight(SubSeq(s, 1, Len(s) - 1)) ELSE s

Trim(s) == TrimRight(TrimLeft(s))

\* String.prototype.split(/\s+/): a run of white space is one separator
RECURSIVE SplitWsFrom(_, _, _)
SplitWsFrom(s, i, cur) ==
  IF i > Len(s) THEN <<cur>>
  ELSE IF IsSpace(s[i])
    THEN IF i > 1 /\ IsSpace(s[i - 1]) THEN SplitWsFrom(s, i + 1, cur)
         ELSE <<cur>> \o SplitWsFrom(s, i + 1, <<>>)
  ELSE SplitWsFrom(s, i + 1, Append(cur, s[i]))

SplitWs(s) == SplitWsFrom(s, 1, <<>>)

\* parseInt(s, 10) on a token without white space or sign: the value of the
\* longest prefix of digits, NaN when there is none
RECURSIVE ParseDigits(_, _, _)
ParseDigits(s, i, acc) ==
  IF i > Len(s) \/ ~IsDigit(s[i]) THEN acc
  ELSE ParseDigits(s, i + 1, acc * 10 + DigitVal(s[i]))

ParseInt(s) == IF Len(s) = 0 \/ ~IsDigit(s[1]) THEN NaN ELSE ParseDigits(s, 1, 0)

\* `${n}` for a non-negative integer
RECURSIVE ToDigits(_)
ToDigits(n) ==
  IF n < 10 THEN <<DigitChars[n + 1]>> ELSE ToDigits(n \div 10) \o <<DigitChars[(n % 10) + 1]>>

---------------------------------------------------------------------------
(* parseDiff (src/model/repo.ts).                                          *)

Add == "add"
Change == "changed"
Delete == "delete"

\* diffStr.split('\n').slice(4, -1)
AllLines(text) ==
  LET ls == SplitChar(text, "\n")
  IN IF Len(ls) <= 5 THEN <<>> ELSE SubSeq(ls, 5, Len(ls) - 1)

\* line.split('@@', 2)[1].trim(), for a line that starts with '@@'
DiffKey(headLine) ==
  LET rest == SubSeq(headLine, 3, Len(headLine))
      k == IndexFrom(rest, <<"@", "@">>, 1)
  IN Trim(IF k = 0 THEN rest ELSE SubSeq(rest, 1, k - 1))

\* diffKey.split(/\s+/).map(str => str.slice(1).split(','))
Groups(headLine) ==
  LET toks == SplitWs(DiffKey(headLine))
  IN [i \in 1..Len(toks) |-> SplitChar(Slice1(toks[i]), ",")]

\* mutant of RangeOf: a count of 0 falls back to 1 like an omitted one
RangeOf_ZeroAsOne(g) ==
  [start |-> ParseInt(g[1]),
   count |-> IF Len(g) < 2 \/ g[2] = <<>> \/ ParseInt(g[2]) = 0 THEN 1 ELSE ParseInt(g[2])]

\* { start: parseInt(g[0], 10), count: parseInt(`${g[1] || 1}`, 10) }
RangeOf(g) ==
  [start |-> ParseInt(g[1]),
   count |-> ParseInt(IF Len(g) < 2 \/ g[2] = <<>> THEN ToDigits(1) ELSE g[2])]

\* mutant of MakeDiff: the end of a Change is taken from added.count alone
MakeDiff_CountEnd(headLine, removed, added) ==
  [lines |-> <<>>, start |-> added.start,
   end |-> IF added.count = 0 THEN added.start ELSE JsSub(JsAdd(added.start, added.count), 1),
   head |-> headLine, removed |-> removed, added |-> added,
   changeType |-> IF added.count = 0 THEN Delete ELSE IF removed.count = 0 THEN Add ELSE Change]

\* mutant of MakeDiff: removed.count = 0 is tested before added.count = 0
MakeDiff_AddFirst(headLine, removed, added) ==
  IF removed.count = 0
    THEN [lines |-> <<>>, start |-> added.start,
          end |-> JsSub(JsAdd(added.start, added.count), 1), head |-> headLine,
          removed |-> removed, added |-> added, changeType |-> Add]
  ELSE IF added.count = 0
    THEN [lines |-> <<>>, start |-> added.start, end |-> added.start, head |-> headLine,
          removed |-> removed, added |-> added, changeType |-> Delete]
  ELSE [lines |-> <<>>, start |-> added.start,
        end |-> JsSub(JsAdd(added.start, JsMin(added.count, removed.count)), 1),
        head |-> headLine, removed |-> removed, added |-> added, changeType |-> Change]

\* the hunk pushed for a header line, by the three branches on the counts
MakeDiff(headLine, removed, added) ==
  IF added.count = 0
    THEN [lines |-> <<>>, start |-> added.start, end |-> added.start, head |-> headLine,
          removed |-> removed, added |-> added, changeType |-> Delete]
  ELSE IF removed.count = 0
    THEN [lines |-> <<>>, start |-> added.start,
          end |-> JsSub(JsAdd(added.start, added.count), 1), head |-> headLine,
          removed |-> removed, added |-> added, changeType |-> Add]
  ELSE [lines |-> <<>>, start |-> added.start,
        end |-> JsSub(JsAdd(added.start, JsMin(added.count, removed.count)), 1),
        head |-> headLine, removed |-> removed, added |-> added, changeType |-> Change]

\* mutant of PushLine: the line goes to the first hunk
PushLine_First(acc, l) ==
  [acc EXCEPT ![1] = [@ EXCEPT !.lines = Append(@, l)]]

\* diff.lines.push(line): diff is the hunk pushed last
PushLine(acc, l) ==
  [acc EXCEPT ![Len(acc)] = [@ EXCEPT !.lines = Append(@, l)]]

\* the for loop of parseDiff from line i on; acc is diffs.  A header with fewer
\* than two groups leaves nows undefined and nows[0] throws a TypeError.
RECURSIVE ParseFrom(_, _, _)
ParseFrom(allLines, i, acc) ==
  IF i > Len(allLines) THEN [threw |-> FALSE, diffs |-> acc]
  ELSE IF ~StartsWith(allLines[i], <<"@", "@">>)
    THEN ParseFrom(allLines, i + 1, IF acc # <<>> THEN PushLine(acc, allLines[i]) ELSE acc)
  ELSE LET gs == Groups(allLines[i])
       IN IF Len(gs) < 2 THEN [threw |-> TRUE, diffs |-> <<>>]
          ELSE ParseFrom(allLines, i + 1,
                         Append(acc, MakeDiff(allLines[i], RangeOf(gs[1]), RangeOf(gs[2]))))

parseDiff(text) == ParseFrom(AllLines(text), 1, <<>>)

---------------------------------------------------------------------------
(* Repo.getStagedChunks (src/model/repo.ts).                               *)

\* the end of the run of white space / of digits that starts at i
RECURSIVE SpaceEnd(_, _)
SpaceEnd(s, i) == IF i <= Len(s) /\ IsSpace(s[i]) THEN SpaceEnd(s, i + 1) ELSE i

RECURSIVE DigitEnd(_, _)
DigitEnd(s, i) == IF i <= Len(s) /\ IsDigit(s[i]) THEN DigitEnd(s, i + 1) ELSE i

\* Number(m) for a capture of digits
Number(m) == ParseDigits(m, 1, 0)

\* sign(\d+),?(\d*)\s+ matched at i, sign being - or +; the quantifiers are
\* greedy and giving digits back never moves the place the match ends, so the
\* captures are those of the greedy match:
\* { lnum: Number(ms[1]), count: ms[2] ? Number(ms[2]) : 1 }
MatchRange(s, i, sign) ==
  LET e1 == DigitEnd(s, i + 1)
      c == IF e1 <= Len(s) /\ s[e1] = "," THEN e1 + 1 ELSE e1
      e2 == DigitEnd(s, c)
      e3 == SpaceEnd(s, e2)
  IN IF i <= Len(s) /\ s[i] = sign /\ e1 > i + 1 /\ e3 > e2
       THEN [ok |-> TRUE, next |-> e3,
             range |-> [lnum |-> Number(SubSeq(s, i + 1, e1 - 1)),
                        count |-> IF e2 > c THEN Number(SubSeq(s, c, e2 - 1)) ELSE 1]]
       ELSE [ok |-> FALSE, next |-> i, range |-> [lnum |-> 0, count |-> 0]]

\* line.match(/^@@\s+-(\d+),?(\d*)\s+\+(\d+),?(\d*)\s+@@/)
MatchHeader(l) ==
  LET e0 == SpaceEnd(l, 3)
      rm == MatchRange(l, e0, "-")
      ad == MatchRange(l, rm.next, "+")
  IN IF StartsWith(l, <<"@", "@">>) /\ e0 > 3 /\ rm.ok /\ ad.ok
        /\ StartsWith(SubSeq(l, ad.next, Len(l)), <<"@", "@">>)
       THEN [ok |-> TRUE, remove |-> rm.range, add |-> ad.range]
       ELSE [ok |-> FALSE, remove |-> rm.range, add |-> ad.range]

\* the greatest index >= i at which p occurs in s, or 0
RECURSIVE LastIndexFrom(_, _, _)
LastIndexFrom(s, p, i) ==
  LET k == IndexFrom(s, p, i)
  IN IF k = 0 THEN 0
     ELSE LET later == LastIndexFrom(s, p, k + 1) IN IF later = 0 THEN k ELSE later

DiffGit == <<"d", "i", "f", "f", " ", "-", "-", "g", "i", "t">>

\* line.match(/diff\s--git\sa\/(.*)\sb\//) for a line that starts with
\* 'diff --git': the match is tried at the start of the line, (.*) is greedy
\* and runs to the last ' b/'
MatchDiffGit(l) ==
  LET from == Len(DiffGit) + 4
      k == LastIndexFrom(l, <<" ", "b", "/">>, from)
  IN IF StartsWith(l, DiffGit \o <<" ", "a", "/">>) /\ k # 0
       THEN [ok |-> TRUE, path |-> SubSeq(l, from, k - 1)]
       ELSE [ok |-> FALSE, path |-> <<>>]

\* the while loop of getStagedChunks from lines[idx] on.  fsPath is <<>> while
\* undefined; curr is the place in res of the current chunk, 0 while
\* undefined; res lists the chunks in the order they were pushed, each with
\* the path it was pushed under.
RECURSIVE StagedFrom(_, _, _, _, _)
StagedFrom(lines, idx, fsPath, curr, res) ==
  IF idx > Len(lines) THEN res
  ELSE LET l == lines[idx]
       IN IF fsPath # <<>> /\ StartsWith(l, <<"@", "@">>)
            THEN LET ms == MatchHeader(l)
                 IN IF ms.ok
                      THEN StagedFrom(lines, idx + 1, fsPath, Len(res) + 1,
                                      Append(res, [fsPath |-> fsPath, remove |-> ms.remove,
                                                   add |-> ms.add, lines |-> <<>>]))
                      ELSE StagedFrom(lines, idx + 1, fsPath, 0, res)
          ELSE IF curr # 0 /\ Len(l) > 0 /\ l[1] \in {"+", "-"}
            THEN StagedFrom(lines, idx + 1, fsPath, curr,
                            [res EXCEPT ![curr] = [@ EXCEPT !.lines = Append(@, l)]])
          ELSE IF StartsWith(l, DiffGit) /\ MatchDiffGit(l).ok
            THEN StagedFrom(lines, idx + 4, MatchDiffGit(l).path, 0, res)
          ELSE StagedFrom(lines, idx + 1, fsPath, curr, res)

\* getStagedChunks on the stdout of git diff --staged; an empty stdout throws
getStagedChunks(text) ==
  IF text = <<>> THEN [threw |-> TRUE, chunks |-> <<>>]
  ELSE [threw |-> FALSE, chunks |-> StagedFrom(SplitChar(text, "\n"), 1, <<>>, 0, <<>>)]

---------------------------------------------------------------------------
(* The diff texts the model feeds to parseDiff.                            *)

\* a count as written in a header: omitted (it then means 1) or explicit
CountSpecs ==
  {[omit |-> TRUE, n |-> 1]} \cup {[omit |-> FALSE, n |-> k] : k \in 0..MaxCount \cup {10 + MaxCount}}

StartValues == 0..MaxStart \cup {10 + MaxStart}

\* text after the closing @@ of a header (git prints the enclosing function there)
Contexts == {<<>>, <<" ", "f", "(", ")">>, <<" ", "@", "@", " ", "-", "9", " ", "+", "9">>}

HeaderParams ==
  [a : {0, 1, 10 + MaxStart}, b : CountSpecs, c : StartValues, d : CountSpecs, ctx : Contexts]

FormatRange(sign, start, cnt) ==
  <<sign>> \o ToDigits(start) \o (IF cnt.omit THEN <<>> ELSE <<",">> \o ToDigits(cnt.n))

\* `@@ -a[,b] +c[,d] @@` followed by the context text
FormatHeader(p) ==
  <<"@", "@", " ">> \o FormatRange("-", p.a, p.b) \o <<" ">> \o FormatRange("+", p.c, p.d)
    \o <<" ", "@", "@">> \o p.ctx

HeaderTable == {<<p, FormatHeader(p)>> : p \in HeaderParams}

ValidHeaders == {t[2] : t \in HeaderTable}

\* lines of a hunk area: two valid headers, two body lines (one holding @@
\* after its sign), a header whose groups are no integers and a header with
\* one group only
HdrChange == <<"@", "@", " ", "-", "1", " ", "+", "1", " ", "@", "@">>
HdrDelete == <<"@", "@", " ", "-", "1", ",", "2", " ", "+", "0", ",", "0", " ", "@", "@">>
BodyMinus == <<"-", "a">>
BodyPlus == <<"+", "@", "@">>
HdrNoInt == <<"@", "@", " ", "-", "x", " ", "+", ",", " ", "@", "@">>
HdrOneGroup == <<"@", "@", " ", "-", "1", " ", "@", "@">>

LineAlphabet == {HdrChange, HdrDelete, BodyMinus, BodyPlus, HdrNoInt, HdrOneGroup}

RECURSIVE SeqsUpTo(_, _)
SeqsUpTo(S, n) ==
  IF n = 0 THEN {<<>>}
  ELSE LET shorter == SeqsUpTo(S, n - 1)
       IN shorter \cup {Append(s, x) : s \in {t \in shorter : Len(t) = n - 1}, x \in S}

HunkAreas ==
  SeqsUpTo(LineAlphabet, MaxLines) \cup {<<h>> : h \in ValidHeaders}
    \cup {<<h, BodyMinus>> : h \in ValidHeaders}

\* the four lines git prints before the first hunk
Preamble ==
  << <<"d", "i", "f", "f", " ", "-", "-", "g", "i", "t", " ", "a", "/", "f", " ", "b", "/", "f">>,
     <<"i", "n", "d", "e", "x">>, <<"-", "-", "-">>, <<"+", "+", "+">> >>

RECURSIVE JoinLines(_)
JoinLines(ls) == IF ls = <<>> THEN <<>> ELSE Head(ls) \o <<"\n">> \o JoinLines(Tail(ls))

\* git's output: every line, the last one too, ends with a newline
DiffText(area) == JoinLines(Preamble \o area)

---------------------------------------------------------------------------
(* SpecParse: one call of parseDiff on a diff text.                        *)

NoCall == [threw |-> FALSE, diffs |-> <<>>, called |-> FALSE]

\* no chunk command has run
NoApply == [called |-> FALSE, input |-> <<>>]

\* no jump command and no conflict command has run; the steps of _refresh and
\* of diffDocument are not told apart; the manager is not looked at
ExtIdle ==
  /\ cursor = 0
  /\ wrapscan = FALSE
  /\ warningMessage = ""
  /\ disposed = FALSE
  /\ waiting = 0
  /\ inflight = <<>>
  /\ latest = [indexed |-> FALSE, changes |-> <<>>]
  /\ replaced = FALSE
  /\ docOpen = TRUE
  /\ pending = 0
  /\ created = <<>>
  /\ mapEntry = 0

CommandIdle ==
  /\ lastCommand = ""
  /\ gitApply = NoApply
  /\ errorMessage = ""
  /\ rejected = FALSE
  /\ refreshArmed = FALSE

\* the content of the buffer is not looked at
DocIdle ==
  /\ reference = <<>>
  /\ docLines = <<>>
  /\ hasConflicts = FALSE
  /\ conflicts = <<>>

BufferIdle ==
  /\ stagedOutput = <<>>
  /\ CommandIdle
  /\ ExtIdle
  /\ DocIdle
  /\ gitOutput = <<>>
  /\ diffs = <<>>
  /\ currentSigns = <<>>
  /\ gitStatus = <<>>
  /\ placedSigns = <<>>
  /\ line = 0
  /\ chunk = 0
  /\ config = [enableGutters |-> TRUE, realtimeGutters |-> TRUE, conflict |-> [enabled |-> TRUE]]

NoStaged == [threw |-> FALSE, chunks |-> <<>>, called |-> FALSE]

InitParse ==
  /\ \E area \in HunkAreas : diffStr = DiffText(area)
  /\ parsed = NoCall
  /\ staged = NoStaged
  /\ BufferIdle

ParseDiff ==
  /\ ~parsed.called
  /\ parsed' = [threw |-> parseDiff(diffStr).threw, diffs |-> parseDiff(diffStr).diffs,
                called |-> TRUE]
  /\ UNCHANGED <<diffStr, staged, bufferVars>>

GetStagedChunks ==
  /\ ~staged.called
  /\ staged' = [threw |-> getStagedChunks(diffStr).threw,
                chunks |-> getStagedChunks(diffStr).chunks, called |-> TRUE]
  /\ UNCHANGED <<diffStr, parsed, bufferVars>>

NextParse == ParseDiff \/ GetStagedChunks

SpecParse == InitParse /\ [][NextParse]_vars

---------------------------------------------------------------------------
(* Claims about parseDiff, checked under SpecParse.                        *)

IsHeaderLine(l) == StartsWith(l, <<"@", "@">>)

\* the hunk area of the text under parse, and the places of its @@ lines
Area == AllLines(diffStr)

HeaderPlaces == {i \in 1..Len(Area) : IsHeaderLine(Area[i])}

Returned == parsed.called /\ ~parsed.threw

Hunks == {parsed.diffs[k] : k \in 1..Len(parsed.diffs)}

IntHunk(h) ==
  IsNum(h.removed.start) /\ IsNum(h.removed.count) /\ IsNum(h.added.start) /\ IsNum(h.added.count)

MinOf(x, y) == IF x < y THEN x ELSE y

\* C1: every hunk parsed from a header of integers has start = added.start and
\* end = added.start for a Delete, added.start + added.count - 1 for an Add,
\* added.start + min(added.count, removed.count) - 1 for a Change, so that a
\* Change spans exactly min(added.count, removed.count) lines.
C1_HunkSpan ==
  Returned =>
    \A h \in Hunks : IntHunk(h) =>
      /\ h.start = h.added.start
      /\ h.changeType = Delete => h.end = h.added.start
      /\ h.changeType = Add => h.end = h.added.start + h.added.count - 1
      /\ h.changeType = Change =>
           /\ h.end = h.added.start + MinOf(h.added.count, h.removed.count) - 1
           /\ h.end - h.start + 1 = MinOf(h.added.count, h.removed.count)

C1_Witness ==
  /\ Returned
  /\ \E h \in Hunks : /\ IntHunk(h) /\ h.changeType = Change
                      /\ h.added.count > h.removed.count /\ h.removed.count > 1

\* the three cases of the classification
CaseDelete(h) == h.added.count = 0
CaseAdd(h) == h.removed.count = 0
CaseChange(h) == h.added.count > 0 /\ h.removed.count > 0

ExactlyOneCase(h) ==
  /\ CaseDelete(h) \/ CaseAdd(h) \/ CaseChange(h)
  /\ ~(CaseDelete(h) /\ CaseAdd(h))
  /\ ~(CaseDelete(h) /\ CaseChange(h))
  /\ ~(CaseAdd(h) /\ CaseChange(h))

\* C2 as claimed: for every hunk (of integers) exactly one of added.count = 0,
\* removed.count = 0, both positive holds and changeType is Delete, Add or
\* Change respectively, headers with both counts 0 included.
C2_Original ==
  Returned =>
    \A h \in Hunks : IntHunk(h) =>
      /\ ExactlyOneCase(h)
      /\ CaseDelete(h) => h.changeType = Delete
      /\ CaseAdd(h) => h.changeType = Add
      /\ CaseChange(h) => h.changeType = Change

\* C2 as amended: changeType is Delete when added.count = 0 (also when
\* removed.count = 0 as well), Add when only removed.count = 0, and Change
\* otherwise; exactly one case holds when the counts are integers, not both 0.
C2_Classification ==
  Returned =>
    \A h \in Hunks :
      /\ h.changeType = (IF h.added.count = 0 THEN Delete
                         ELSE IF h.removed.count = 0 THEN Add ELSE Change)
      /\ (IntHunk(h) /\ ~(h.added.count = 0 /\ h.removed.count = 0)) => ExactlyOneCase(h)

C2_Witness ==
  /\ Returned
  /\ \E h \in Hunks : h.added.count = 0 /\ h.removed.count = 0 /\ h.changeType = Delete

\* getStagedChunks returned
StagedReturned == staged.called /\ ~staged.threw

\* C3: a hunk whose head is the header `@@ -a[,b] +c[,d] @@` plus context has
\* removed = {a, b} and added = {c, d}, an omitted count read as 1 and an
\* explicit 0 kept; so has the chunk getStagedChunks records for that header
\* (the k-th chunk for the k-th header its regexp matches).
C3_HeaderRoundTrip ==
  /\ Returned =>
       \A h \in Hunks : \A t \in HeaderTable :
         h.head = t[2] =>
           /\ h.removed = [start |-> t[1].a, count |-> t[1].b.n]
           /\ h.added = [start |-> t[1].c, count |-> t[1].d.n]
  /\ StagedReturned =>
       LET area == Area
           places == {i \in 1..Len(area) : IsHeaderLine(area[i])}
           matched == {i \in places : MatchHeader(area[i]).ok}
       IN \A i \in places :
            LET l == area[i]
                k == Cardinality({j \in matched : j <= i})
            IN \A t \in HeaderTable :
                 l = t[2] =>
                   /\ i \in matched
                   /\ k \in 1..Len(staged.chunks)
                   /\ staged.chunks[k].remove = [lnum |-> t[1].a, count |-> t[1].b.n]
                   /\ staged.chunks[k].add = [lnum |-> t[1].c, count |-> t[1].d.n]

C3_Witness ==
  /\ Returned
  /\ \E h \in Hunks : \E t \in HeaderTable :
       /\ h.head = t[2]
       /\ t[1].b.omit /\ ~t[1].d.omit /\ t[1].d.n = 0
       /\ t[1].c >= 10 /\ t[1].ctx # <<>>
       /\ h.removed.count = 1 /\ h.added.count = 0
  /\ StagedReturned
  /\ \E k \in 1..Len(staged.chunks) :
       staged.chunks[k].remove.count = 1 /\ staged.chunks[k].add.count = 0

\* the text is malformed: its hunk area starts with a body line, or holds an
\* @@ line that is no `@@ -a[,b] +c[,d] @@` header
MalformedArea ==
  \/ Area # <<>> /\ ~IsHeaderLine(Area[1])
  \/ \E i \in HeaderPlaces : Area[i] \notin ValidHeaders

\* C4 as claimed: parseDiff fails on a malformed text and returns no hunks.
C4_Original == (parsed.called /\ MalformedArea) => parsed.threw

\* C5: when parseDiff returns, diffs holds one hunk per @@ line in the order
\* of the text; the k-th hunk's head is the k-th @@ line and its lines are the
\* lines after it up to the next @@ line or the end.
C5_OneHunkPerHeader ==
  Returned =>
    /\ Len(parsed.diffs) = Cardinality(HeaderPlaces)
    /\ \A i \in HeaderPlaces :
         LET k == Cardinality({j \in HeaderPlaces : j <= i})
             later == {j \in HeaderPlaces : j > i}
             stop == IF later = {} THEN Len(Area) + 1
                     ELSE CHOOSE j \in later : \A j2 \in later : j <= j2
         IN /\ parsed.diffs[k].head = Area[i]
            /\ parsed.diffs[k].lines = SubSeq(Area, i + 1, stop - 1)

C5_Witness ==
  /\ Returned
  /\ Len(parsed.diffs) >= 2
  /\ Len(parsed.diffs[1].lines) >= 1
  /\ parsed.diffs[1].start > parsed.diffs[2].start
  /\ Len(parsed.diffs[2].lines) >= 1

---------------------------------------------------------------------------
(* GitBuffer (src/model/repo.ts): diffDocument and getChunk.               *)

\* a variant that finds no two lists equal
equals_Never(one, other) == FALSE

\* equals(one, other) of util.ts: deep structural equality
equals(one, other) == one = other

\* mutant of CountFrom: a Change adds all its added and removed lines
RECURSIVE CountFrom_NoSurplus(_, _, _)
CountFrom_NoSurplus(ds, i, acc) ==
  IF i > Len(ds) THEN acc
  ELSE LET diff == ds[i]
           min == IF diff.added.count < diff.removed.count
                  THEN diff.added.count ELSE diff.removed.count
       IN CountFrom_NoSurplus(ds, i + 1,
            IF diff.changeType = Add
              THEN [acc EXCEPT !.added = @ + diff.added.count]
            ELSE IF diff.changeType = Delete
              THEN [acc EXCEPT !.removed = @ + diff.removed.count]
            ELSE [added |-> acc.added + diff.added.count,
                  changed |-> acc.changed + min,
                  removed |-> acc.removed + diff.removed.count])

\* the counters of diffDocument after the hunks i.. of ds, from acc
RECURSIVE CountFrom(_, _, _)
CountFrom(ds, i, acc) ==
  IF i > Len(ds) THEN acc
  ELSE LET diff == ds[i]
           min == IF diff.added.count < diff.removed.count
                  THEN diff.added.count ELSE diff.removed.count
       IN CountFrom(ds, i + 1,
            IF diff.changeType = Add
              THEN [acc EXCEPT !.added = @ + diff.added.count]
            ELSE IF diff.changeType = Delete
              THEN [acc EXCEPT !.removed = @ + diff.removed.count]
            ELSE [added |-> acc.added + (diff.added.count - min),
                  changed |-> acc.changed + min,
                  removed |-> acc.removed + (diff.removed.count - min)])

Counters(ds) == CountFrom(ds, 1, [added |-> 0, changed |-> 0, removed |-> 0])

\* mutant of HunkSigns: no Add signs after the end of a Change
HunkSigns_NoExtraAdds(diff) ==
  [n \in 1..(diff.end - diff.start + 1) |->
     LET i == diff.start + n - 1
         topdelete == diff.changeType = Delete /\ i = 0
         changedelete == /\ diff.changeType = Change
                         /\ diff.removed.count > diff.added.count
                         /\ i = diff.end
     IN [changeType |-> IF topdelete THEN "topdelete"
                        ELSE IF changedelete THEN "changedelete" ELSE diff.changeType,
         lnum |-> IF topdelete THEN 1 ELSE i]]

\* mutant of HunkSigns: a deletion above line 1 keeps line 0
HunkSigns_NoTopRemap(diff) ==
  [n \in 1..(diff.end - diff.start + 1) |->
     LET i == diff.start + n - 1
         changedelete == /\ diff.changeType = Change
                         /\ diff.removed.count > diff.added.count
                         /\ i = diff.end
     IN [changeType |-> IF changedelete THEN "changedelete" ELSE diff.changeType,
         lnum |-> i]]
  \o (IF diff.changeType = Change /\ diff.added.count > diff.removed.count
        THEN [n \in 1..(diff.added.count - diff.removed.count) |->
                [changeType |-> Add, lnum |-> diff.end + 1 + (n - 1)]]
        ELSE <<>>)

\* the signs one hunk pushes: the loop over start..end, then the extra Add
\* signs of a Change with more added than removed lines
HunkSigns(diff) ==
  [n \in 1..(diff.end - diff.start + 1) |->
     LET i == diff.start + n - 1
         topdelete == diff.changeType = Delete /\ i = 0
         changedelete == /\ diff.changeType = Change
                         /\ diff.removed.count > diff.added.count
                         /\ i = diff.end
     IN [changeType |-> IF topdelete THEN "topdelete"
                        ELSE IF changedelete THEN "changedelete" ELSE diff.changeType,
         lnum |-> IF topdelete THEN 1 ELSE i]]
  \o (IF diff.changeType = Change /\ diff.added.count > diff.removed.count
        THEN [n \in 1..(diff.added.count - diff.removed.count) |->
                [changeType |-> Add, lnum |-> diff.end + 1 + (n - 1)]]
        ELSE <<>>)

RECURSIVE SignsFrom(_, _)
SignsFrom(ds, i) == IF i > Len(ds) THEN <<>> ELSE HunkSigns(ds[i]) \o SignsFrom(ds, i + 1)

\* items.join(' ')
RECURSIVE JoinSpace(_)
JoinSpace(items) ==
  IF items = <<>> THEN <<>>
  ELSE IF Len(items) = 1 THEN items[1]
  ELSE items[1] \o <<" ">> \o JoinSpace(Tail(items))

\* '  ' + `${items.join(' ')} ` with an item for each counter that is not 0
StatusText(c) ==
  LET items == (IF c.added # 0 THEN << <<"+">> \o ToDigits(c.added) >> ELSE <<>>)
               \o (IF c.changed # 0 THEN << <<"~">> \o ToDigits(c.changed) >> ELSE <<>>)
               \o (IF c.removed # 0 THEN << <<"-">> \o ToDigits(c.removed) >> ELSE <<>>)
  IN <<" ", " ">> \o JoinSpace(items) \o <<" ">>

getSignName(changeType) ==
  CASE changeType = Delete -> "CocGitRemoved"
    [] changeType = Add -> "CocGitAdded"
    [] changeType = Change -> "CocGitChanged"
    [] changeType = "topdelete" -> "CocGitTopRemoved"
    [] changeType = "changedelete" -> "CocGitChangeRemoved"
    [] OTHER -> ""

\* what updateGutters leaves in the sign column: sign_unplace, then one
\* sign_place for each of signs
PlaceAll(signs) ==
  [n \in 1..Len(signs) |-> [name |-> getSignName(signs[n].changeType), lnum |-> signs[n].lnum]]

\* mutant of ChunkMatches: the end is not moved on for the extra added lines
ChunkMatches_NoShift(ch, l) ==
  \/ l = 1 /\ ch.start = 0 /\ ch.end = 0
  \/ ch.start <= l /\ ch.end >= l

\* mutant of ChunkMatches: the end is moved on by added.count
ChunkMatches_AddedOnly(ch, l) ==
  \/ l = 1 /\ ch.start = 0 /\ ch.end = 0
  \/ LET end == IF ch.changeType = Change /\ ch.added.count > ch.removed.count
                THEN ch.end + ch.added.count ELSE ch.end
     IN ch.start <= l /\ end >= l

\* the callback of getChunk's find
ChunkMatches(ch, l) ==
  \/ l = 1 /\ ch.start = 0 /\ ch.end = 0
  \/ LET end == IF ch.changeType = Change /\ ch.added.count > ch.removed.count
                THEN ch.end + ch.added.count - ch.removed.count ELSE ch.end
     IN ch.start <= l /\ end >= l

\* getChunk: the place in ds of the hunk Array.prototype.find returns, 0 for undefined
getChunk(ds, l) ==
  IF ds = <<>> THEN 0
  ELSE IF \E k \in 1..Len(ds) : ChunkMatches(ds[k], l)
    THEN CHOOSE k \in 1..Len(ds) :
           ChunkMatches(ds[k], l) /\ \A j \in 1..(k - 1) : ~ChunkMatches(ds[j], l)
  ELSE 0

---------------------------------------------------------------------------
(* The diffs git can be asked to print for the buffer.                     *)

\* a count as git prints it: left out when it is 1
GitCount(n) == IF n = 1 THEN [omit |-> TRUE, n |-> 1] ELSE [omit |-> FALSE, n |-> n]

RepeatLine(l, n) == [i \in 1..n |-> l]

\* a hunk of b removed and d added lines at line c of the buffer
HunkText(b, c, d) ==
  LET a == IF d = 0 THEN c + 1 ELSE IF b = 0 /\ c > 0 THEN c - 1 ELSE c
  IN <<FormatHeader([a |-> a, b |-> GitCount(b), c |-> c, d |-> GitCount(d), ctx |-> <<>>])>>
       \o RepeatLine(<<"-", "o">>, b) \o RepeatLine(<<"+", "n">>, d)

\* one difference between the staged file and the buffer
BufferChanges == [b : 0..MaxCount, c : 0..MaxStart, d : 0..MaxCount]

\* no, one or two differences, in the order of their lines as git prints them
ChangeLists ==
  {<<>>} \cup {<<g>> : g \in BufferChanges}
    \cup {gh \in BufferChanges \X BufferChanges : gh[2].c >= gh[1].c}

\* the output of git diff -U0 for a list of differences: nothing when there is none
OutputText(changes) ==
  IF changes = <<>> THEN <<>>
  ELSE DiffText(IF Len(changes) = 1 THEN HunkText(changes[1].b, changes[1].c, changes[1].d)
                ELSE HunkText(changes[1].b, changes[1].c, changes[1].d)
                       \o HunkText(changes[2].b, changes[2].c, changes[2].d))

\* what the diff source can answer: the file is not indexed, or its differences
GitOutputs ==
  {[indexed |-> FALSE, changes |-> <<>>]} \cup {[indexed |-> TRUE, changes |-> cl] : cl \in ChangeLists}

\* Repo.getDiff: undefined when the file is not indexed, [] when git prints
\* nothing, parseDiff(output) otherwise
getDiff(out) ==
  IF ~out.indexed THEN [defined |-> FALSE, threw |-> FALSE, diffs |-> <<>>]
  ELSE IF OutputText(out.changes) = <<>> THEN [defined |-> TRUE, threw |-> FALSE, diffs |-> <<>>]
  ELSE LET r == parseDiff(OutputText(out.changes))
       IN [defined |-> TRUE, threw |-> r.threw, diffs |-> r.diffs]

\* getDiff on each of them, computed once
DiffResults == [out \in GitOutputs |-> getDiff(out)]

\* the lines a command can find the cursor on
CursorLines == 1..(MaxStart + MaxCount + 1)

---------------------------------------------------------------------------
(* Spec: one GitBuffer.                                                    *)

Init ==
  /\ diffStr = <<>>
  /\ parsed = NoCall
  /\ staged = NoStaged
  /\ gitOutput \in GitOutputs
  /\ diffs = <<>>
  /\ currentSigns = <<>>
  /\ gitStatus = <<>>
  /\ placedSigns = <<>>
  /\ line = 0
  /\ chunk = 0
  /\ config \in [enableGutters : BOOLEAN, realtimeGutters : BOOLEAN, conflict : {[enabled |-> TRUE]}]
  /\ stagedOutput = <<>>
  /\ CommandIdle
  /\ ExtIdle
  /\ DocIdle

\* setBufferStatus: gitStatus is written only when it differs
setBufferStatus(status) == gitStatus' = (IF gitStatus = status THEN gitStatus ELSE status)

\* diffDocument: what it does to the hunks, the signs and the status; nothing
\* when getDiff returns undefined (or parseDiff threw)
diffDocument(force) ==
  LET res == DiffResults[gitOutput]
  IN IF ~res.defined \/ res.threw
       THEN UNCHANGED <<currentSigns, diffs, gitStatus, placedSigns>>
     ELSE IF Len(res.diffs) = 0
       THEN /\ currentSigns' = <<>>
            /\ diffs' = <<>>
            /\ setBufferStatus(<<>>)
            /\ placedSigns' = (IF config.enableGutters THEN <<>> ELSE placedSigns)
     ELSE IF equals(res.diffs, diffs)
       THEN UNCHANGED <<currentSigns, diffs, gitStatus, placedSigns>>
     ELSE /\ diffs' = res.diffs
          /\ setBufferStatus(StatusText(Counters(res.diffs)))
          /\ currentSigns' = SignsFrom(res.diffs, 1)
          /\ placedSigns' = (IF (config.realtimeGutters \/ force) /\ config.enableGutters
                             THEN PlaceAll(SignsFrom(res.diffs, 1)) ELSE placedSigns)

\* a call of diffDocument that gets a diff
DiffDocument(force) ==
  /\ DiffResults[gitOutput].defined
  /\ ~DiffResults[gitOutput].threw
  /\ diffDocument(force)
  /\ UNCHANGED <<parseVars, extVars, gitOutput, line, chunk, config, commandVars, docVars>>

\* a command reads the cursor line and looks its hunk up
GetChunk(l) ==
  /\ line' = l
  /\ chunk' = getChunk(diffs, l)
  /\ UNCHANGED <<parseVars, extVars, gitOutput, diffs, currentSigns, gitStatus, placedSigns, config, commandVars, docVars>>

Next ==
  \/ \E force \in BOOLEAN : DiffDocument(force)
  \/ \E l \in CursorLines : GetChunk(l)

Spec == Init /\ [][Next]_vars

---------------------------------------------------------------------------
(* Claims about diffDocument and getChunk, checked under Spec.             *)

RECURSIVE SumSeq(_)
SumSeq(ns) == IF ns = <<>> THEN 0 ELSE Head(ns) + SumSeq(Tail(ns))

\* the number the status text shows after sign, 0 when it shows none
StatusCount(sign) ==
  LET toks == SplitChar(gitStatus, " ")
      at == {i \in 1..Len(toks) : toks[i] # <<>> /\ toks[i][1] = sign}
  IN IF at = {} THEN 0 ELSE ParseInt(Tail(toks[CHOOSE i \in at : TRUE]))

\* C6: the counters of the status satisfy changed = sum of min(added.count,
\* removed.count) over the Change hunks, added + changed = sum of added.count
\* over the Add and Change hunks, removed + changed = sum of removed.count over
\* the Delete and Change hunks.
C6_Counters ==
  LET added == StatusCount("+")
      changed == StatusCount("~")
      removed == StatusCount("-")
      n == Len(diffs)
  IN /\ changed = SumSeq([k \in 1..n |->
                    IF diffs[k].changeType = Change
                    THEN MinOf(diffs[k].added.count, diffs[k].removed.count) ELSE 0])
     /\ added + changed = SumSeq([k \in 1..n |->
                    IF diffs[k].changeType \in {Add, Change} THEN diffs[k].added.count ELSE 0])
     /\ removed + changed = SumSeq([k \in 1..n |->
                    IF diffs[k].changeType \in {Delete, Change} THEN diffs[k].removed.count ELSE 0])

C6_Witness ==
  /\ Len(diffs) = 2
  /\ diffs[1].changeType = Change /\ diffs[1].added.count > diffs[1].removed.count
  /\ diffs[2].changeType = Change /\ diffs[2].added.count < diffs[2].removed.count
  /\ StatusCount("+") > 0 /\ StatusCount("~") > 1 /\ StatusCount("-") > 0

\* the number of signs a hunk is to yield, and the place in currentSigns
\* before the signs of the k-th hunk
SignCount(h) == IF h.changeType = Delete THEN 1 ELSE h.added.count

SignsBefore(k) == SumSeq([j \in 1..(k - 1) |-> SignCount(diffs[j])])

\* C7: an Add or Change hunk yields exactly added.count signs, on the lines
\* added.start .. added.start + added.count - 1 in turn: all Add for an Add
\* hunk; for a Change hunk Change on the first min(added.count, removed.count)
\* lines, but ChangeDelete on the last of them when removed.count >
\* added.count, and Add on the lines after them.
C7_AddChangeSigns ==
  /\ Len(currentSigns) = SignsBefore(Len(diffs) + 1)
  /\ \A k \in 1..Len(diffs) :
       LET h == diffs[k]
           m == MinOf(h.added.count, h.removed.count)
       IN h.changeType \in {Add, Change} =>
            \A n \in 1..h.added.count :
              LET sg == currentSigns[SignsBefore(k) + n]
              IN /\ sg.lnum = h.added.start + n - 1
                 /\ sg.changeType =
                      (IF h.changeType = Add THEN Add
                       ELSE IF n > m THEN Add
                       ELSE IF n = m /\ h.removed.count > h.added.count THEN "changedelete"
                       ELSE Change)

C7_Witness ==
  /\ Len(diffs) = 2
  /\ diffs[1].changeType = Change /\ diffs[1].removed.count > diffs[1].added.count
  /\ diffs[2].changeType = Change /\ diffs[2].added.count > diffs[2].removed.count
  /\ Len(currentSigns) = diffs[1].added.count + diffs[2].added.count
  /\ currentSigns[Len(currentSigns)].changeType = Add

\* every Delete hunk yields one sign: Delete at added.start, or TopDelete at
\* line 1 when added.start = 0
DeleteSigns ==
  /\ Len(currentSigns) = SignsBefore(Len(diffs) + 1)
  /\ \A k \in 1..Len(diffs) :
       diffs[k].changeType = Delete =>
         currentSigns[SignsBefore(k) + 1] =
           (IF diffs[k].added.start = 0 THEN [changeType |-> "topdelete", lnum |-> 1]
            ELSE [changeType |-> Delete, lnum |-> diffs[k].added.start])

EffectiveEnd(h) ==
  IF h.changeType = Change /\ h.added.count > h.removed.count
  THEN h.end + (h.added.count - h.removed.count) ELSE h.end

Locates(h, l) ==
  \/ l = 1 /\ h.start = 0 /\ h.end = 0
  \/ h.start <= l /\ l <= EffectiveEnd(h)

\* C9: getChunk(line) returns the first hunk of the list that locates the
\* line, and undefined when none does.
C9_FirstMatch ==
  [][(line' # line \/ chunk' # chunk) =>
       LET hits == {k \in 1..Len(diffs) : Locates(diffs[k], line')}
       IN IF hits = {} THEN chunk' = 0
          ELSE chunk' \in hits /\ \A k \in hits : chunk' <= k]_vars

C9_Witness ==
  /\ Len(diffs) = 2
  /\ chunk = 2
  /\ diffs[2].changeType = Change
  /\ line > diffs[2].end
  /\ line > EffectiveEnd(diffs[1])

\* the spans [start, effective end] of the cached hunks are pairwise disjoint
\* and ascending
DisjointAscending ==
  \A i \in 1..Len(diffs) : \A j \in (i + 1)..Len(diffs) : EffectiveEnd(diffs[i]) < diffs[j].start

MatchCount(l) == Cardinality({k \in 1..Len(diffs) : ChunkMatches(diffs[k], l)})

\* C10 as claimed: in a list of disjoint ascending spans at most one hunk
\* matches any line.
C10_Original == DisjointAscending => \A l \in CursorLines : MatchCount(l) <= 1

\* C10 as amended: in a list of disjoint ascending spans at most one hunk
\* matches any line, but for line 1 when the list holds a hunk with start =
\* end = 0: that hunk matches line 1 besides the hunk whose span holds line 1.
C10_OnlyMatch ==
  DisjointAscending =>
    \A l \in CursorLines :
      (l # 1 \/ \A k \in 1..Len(diffs) : ~(diffs[k].start = 0 /\ diffs[k].end = 0))
        => MatchCount(l) <= 1

C10_Witness ==
  /\ DisjointAscending
  /\ Len(diffs) = 2
  /\ diffs[1].changeType = Change /\ diffs[1].added.count > diffs[1].removed.count
  /\ diffs[2].start = EffectiveEnd(diffs[1]) + 1
  /\ line = diffs[2].start /\ chunk = 2

---------------------------------------------------------------------------
(* chunkStage and chunkUnstage (src/model/repo.ts, src/util.ts).           *)

\* this.relpath of the buffer
RelPath == <<"f">>

\* `${n}` for an integer or NaN
NumStr(n) ==
  IF n = NaN THEN <<"N", "a", "N">> ELSE ToDigits(n)

\* `${n}` for an integer that is the result of Number() arithmetic (never NaN)
IntStr(n) == IF n < 0 THEN <<"-">> \o ToDigits(0 - n) ELSE ToDigits(n)

\* Array.prototype.join('\n')
RECURSIVE JoinNewline(_)
JoinNewline(ls) ==
  IF ls = <<>> THEN <<>>
  ELSE IF Len(ls) = 1 THEN ls[1]
  ELSE ls[1] \o <<"\n">> \o JoinNewline(Tail(ls))

\* the four lines both patches start with
Envelope(relpath) ==
  << DiffGit \o <<" ", "a", "/">> \o relpath \o <<" ", "b", "/">> \o relpath,
     <<"i", "n", "d", "e", "x", " ", "0", "0", "0", "0", "0", "0", ".", ".", "0", "0", "0", "0", "0", "0", " ", "1", "0", "0", "6", "4", "4">>,
     <<"-", "-", "-", " ", "a", "/">> \o relpath,
     <<"+", "+", "+", " ", "b", "/">> \o relpath >>

\* the header chunkStage writes for a hunk, by its changeType
StageHead(diff) ==
  IF diff.changeType = Add
    THEN <<"@", "@", " ", "-">> \o NumStr(JsAdd(diff.removed.start, 1)) \o <<",", "0", " ", "+">>
           \o NumStr(JsAdd(diff.removed.start, 1)) \o <<",">> \o NumStr(diff.added.count) \o <<" ", "@", "@">>
  ELSE IF diff.changeType = Delete
    THEN <<"@", "@", " ", "-">> \o NumStr(diff.removed.start) \o <<",">> \o NumStr(diff.removed.count)
           \o <<" ", "+">> \o NumStr(diff.removed.start) \o <<",", "0">> \o <<" ", "@", "@">>
  ELSE <<"@", "@", " ", "-">> \o NumStr(diff.removed.start) \o <<",">> \o NumStr(diff.removed.count)
         \o <<" ", "+">> \o NumStr(diff.removed.start) \o <<",">> \o NumStr(diff.added.count) \o <<" ", "@", "@">>

\* mutant of stagePatch: the empty last element is left out
stagePatch_NoFinal(relpath, diff) ==
  JoinNewline(Envelope(relpath) \o <<StageHead(diff)>> \o diff.lines)

\* the input chunkStage hands to git apply
stagePatch(relpath, diff) ==
  JoinNewline(Envelope(relpath) \o <<StageHead(diff)>> \o diff.lines \o << <<>> >>)

\* mutant of reverseLine: a line that starts with '+' is left as it is
reverseLine_KeepPlus(l) ==
  IF StartsWith(l, <<"-">>) THEN <<"+">> \o Slice1(l) ELSE l

\* reverseLine
reverseLine(l) ==
  IF StartsWith(l, <<"-">>) THEN <<"+">> \o Slice1(l)
  ELSE IF StartsWith(l, <<"+">>) THEN <<"-">> \o Slice1(l)
  ELSE l

\* the header createUnstagePatch writes
UnstageHead(c) ==
  <<"@", "@", " ", "-">> \o IntStr(c.add.lnum) \o <<",">> \o IntStr(c.add.count)
    \o <<" ", "+">> \o IntStr(c.add.lnum + 1 - c.add.count) \o <<",">> \o IntStr(c.remove.count)
    \o <<" ", "@", "@">>

\* createUnstagePatch: '' for a chunk of no removed and no added line
createUnstagePatch(relpath, c) ==
  IF c.remove.count = 0 /\ c.add.count = 0 THEN <<>>
  ELSE JoinNewline(Envelope(relpath) \o <<UnstageHead(c)>>
                     \o [i \in 1..Len(c.lines) |-> reverseLine(c.lines[i])] \o << <<>> >>)

\* the first entry of Object.values(stagedDiff): the chunks of the file named
\* first in the output
FirstFileChunks(res) == SelectSeq(res, LAMBDA c : c.fsPath = res[1].fsPath)

\* chunks.find(o => o.add.lnum <= line && o.add.lnum + o.add.count >= line):
\* the place of the chunk found, 0 for undefined
FindStaged(chunks, l) ==
  IF \E k \in 1..Len(chunks) : chunks[k].add.lnum <= l /\ chunks[k].add.lnum + chunks[k].add.count >= l
    THEN CHOOSE k \in 1..Len(chunks) :
           /\ chunks[k].add.lnum <= l /\ chunks[k].add.lnum + chunks[k].add.count >= l
           /\ \A j \in 1..(k - 1) :
                ~(chunks[j].add.lnum <= l /\ chunks[j].add.lnum + chunks[j].add.count >= l)
  ELSE 0

\* a variant that adds what the hunks above add, as the list of chunks does
RECURSIVE UnstageScan_Forward(_, _, _, _)
UnstageScan_Forward(ds, i, l, adjust) ==
  IF i > Len(ds) THEN [invalid |-> FALSE, adjust |-> adjust]
  ELSE IF ds[i].end >= l
    THEN [invalid |-> ds[i].start <= l /\ ds[i].changeType # Delete, adjust |-> adjust]
  ELSE UnstageScan_Forward(ds, i + 1, l, adjust + ds[i].added.count - ds[i].removed.count)

\* the loop of chunkUnstage over diffs from place i on: the line is found
\* inside an unstaged change (invalid), or the lines the hunks above it add
\* and remove are summed up (adjust)
RECURSIVE UnstageScan(_, _, _, _)
UnstageScan(ds, i, l, adjust) ==
  IF i > Len(ds) THEN [invalid |-> FALSE, adjust |-> adjust]
  ELSE IF ds[i].end >= l
    THEN [invalid |-> ds[i].start <= l /\ ds[i].changeType # Delete, adjust |-> adjust]
  ELSE UnstageScan(ds, i + 1, l, adjust - ds[i].added.count + ds[i].removed.count)

---------------------------------------------------------------------------
(* What the index holds for the file of the buffer.                        *)

\* a staged change of b removed and d added lines at line c
StagedChanges == [b : 0..MaxCount, c : 0..MaxStart, d : 0..MaxCount]

\* nothing staged, or one staged change
StagedLists == {<<>>} \cup {<<g>> : g \in StagedChanges}

\* getStagedChunks on the output of git diff --staged for each of them, computed once
StagedResults == [cl \in StagedLists |-> getStagedChunks(OutputText(cl))]

\* the diff source of a buffer that differs from the index in one place at most
StageGitOutputs == {out \in GitOutputs : Len(out.changes) <= 1}

\* a list without its k-th element
Without(ls, k) == IF k \in 1..Len(ls) THEN SubSeq(ls, 1, k - 1) \o SubSeq(ls, k + 1, Len(ls)) ELSE ls

---------------------------------------------------------------------------
(* parseConflicts (src/model/buffer.ts) and the patterns it matches.       *)

\* revPattern: the characters of a revision label
RevChars ==
  {"0", "1", "2", "3", "4", "5", "6", "7", "8", "9"} \cup
  {"A", "B", "C", "D", "E", "F", "G", "H", "I", "J", "K", "L", "M", "N", "O", "P", "Q", "R",
   "S", "T", "U", "V", "W", "X", "Y", "Z", "a", "b", "c", "d", "e", "f", "g", "h", "i", "j",
   "k", "l", "m", "n", "o", "p", "q", "r", "s", "t", "u", "v", "w", "x", "y", "z", "_", ".",
   ":", "/", "-"}

\* the first index from i on that holds no character of a revision label
RECURSIVE RevEnd(_, _)
RevEnd(s, i) == IF i <= Len(s) /\ s[i] \in RevChars THEN RevEnd(s, i + 1) ELSE i

\* the string of n characters ch
RepeatChar(ch, n) == [i \in 1..n |-> ch]

\* ^ch{7} (rev)(:? .+)?$ : seven marker characters, a space, the longest run
\* of label characters, then nothing or a space and at least one character more
\* (a shorter run ends before a label character, and only a colon that is the
\* last character of the run can be given to the optional group, which then
\* needs the same space and character)
MatchMarker(l, ch) ==
  LET stop == RevEnd(l, 9)
      found == /\ Len(l) >= 9
               /\ SubSeq(l, 1, 7) = RepeatChar(ch, 7)
               /\ l[8] = " "
               /\ stop > 9
               /\ \/ stop = Len(l) + 1
                  \/ l[stop] = " " /\ Len(l) >= stop + 1
  IN [found |-> found, rev |-> IF found THEN SubSeq(l, 9, stop - 1) ELSE <<>>]

startPattern(l) == MatchMarker(l, "<")

endPattern(l) == MatchMarker(l, ">")

\* ^={7}$
sepPattern(l) == l = RepeatChar("=", 7)

\* ^\|{7}\smerged\scommon\sancestors : not anchored at the end
commonPattern(l) ==
  /\ Len(l) >= 31
  /\ SubSeq(l, 1, 7) = RepeatChar("|", 7)
  /\ IsSpace(l[8])
  /\ SubSeq(l, 9, 14) = <<"m", "e", "r", "g", "e", "d">>
  /\ IsSpace(l[15])
  /\ SubSeq(l, 16, 21) = <<"c", "o", "m", "m", "o", "n">>
  /\ IsSpace(l[22])
  /\ SubSeq(l, 23, 31) = <<"a", "n", "c", "e", "s", "t", "o", "r", "s">>

\* ConflictParseState
Initial == "Initial"
MatchedStart == "MatchedStart"
MatchedSep == "MatchedSep"
MatchedCommon == "MatchedCommon"

\* a variant that keeps the index of forEach as the line number
mkStartConflict_FromZero(index, current) ==
  [start |-> index, sep |-> 0, end |-> 0, current |-> current, incoming |-> <<>>]

\* mkStartConflict; index counts from 0
mkStartConflict(index, current) ==
  [start |-> index + 1, sep |-> 0, end |-> 0, current |-> current, incoming |-> <<>>]

\* conflict.common = n: the field is added when the conflict has none
SetCommon(conflict, n) ==
  [f \in DOMAIN conflict \cup {"common"} |-> IF f = "common" THEN n ELSE conflict[f]]

\* the conflict of the parser when it holds none
null == <<>>

\* a variant that reads on after a second separator
ConflictStep_KeepOnSep(p, l, index) ==
  LET s == startPattern(l)
      e == endPattern(l)
      restart == [p EXCEPT !.conflict = mkStartConflict(index, s.rev), !.state = MatchedStart]
      abandon == [p EXCEPT !.conflict = null, !.state = Initial]
  IN IF p.state = Initial
       THEN IF s.found THEN restart ELSE p
     ELSE IF p.state \in {MatchedCommon, MatchedStart}
       THEN IF sepPattern(l)
              THEN [p EXCEPT !.conflict.sep = index + 1, !.state = MatchedSep]
            ELSE IF s.found THEN restart
            ELSE IF e.found THEN abandon
            ELSE IF commonPattern(l)
              THEN [p EXCEPT !.conflict = SetCommon(@, index + 1), !.state = MatchedCommon]
            ELSE p
     ELSE IF e.found
            THEN [conflicts |-> Append(p.conflicts,
                                       [p.conflict EXCEPT !.end = index + 1, !.incoming = e.rev]),
                  conflict |-> null, state |-> Initial]
          ELSE IF s.found THEN restart
          ELSE p

\* one turn of the forEach: the parser after the line at index (from 0)
ConflictStep(p, l, index) ==
  LET s == startPattern(l)
      e == endPattern(l)
      restart == [p EXCEPT !.conflict = mkStartConflict(index, s.rev), !.state = MatchedStart]
      abandon == [p EXCEPT !.conflict = null, !.state = Initial]
  IN IF p.state = Initial
       THEN IF s.found THEN restart ELSE p
     ELSE IF p.state \in {MatchedCommon, MatchedStart}
       THEN IF sepPattern(l)
              THEN [p EXCEPT !.conflict.sep = index + 1, !.state = MatchedSep]
            ELSE IF s.found THEN restart
            ELSE IF e.found THEN abandon
            ELSE IF commonPattern(l)
              THEN [p EXCEPT !.conflict = SetCommon(@, index + 1), !.state = MatchedCommon]
            ELSE p
     ELSE IF e.found
            THEN [conflicts |-> Append(p.conflicts,
                                       [p.conflict EXCEPT !.end = index + 1, !.incoming = e.rev]),
                  conflict |-> null, state |-> Initial]
          ELSE IF s.found THEN restart
          ELSE IF sepPattern(l) THEN abandon
          ELSE p

RECURSIVE ConflictsFrom(_, _, _)
ConflictsFrom(lines, index, p) ==
  IF index >= Len(lines) THEN p.conflicts
  ELSE ConflictsFrom(lines, index + 1, ConflictStep(p, lines[index + 1], index))

\* the conflicts parseConflicts finds in the lines of the buffer
ParsedConflicts(lines) ==
  ConflictsFrom(lines, 0, [conflicts |-> <<>>, conflict |-> null, state |-> Initial])

\* parseConflicts: nothing without the flag or with conflict.enabled off; the
\* flag is dropped when no conflict is found
parseConflicts ==
  IF ~hasConflicts \/ ~config.conflict.enabled
    THEN UNCHANGED <<conflicts, hasConflicts>>
  ELSE /\ conflicts' = ParsedConflicts(docLines)
       /\ hasConflicts' = (IF Len(ParsedConflicts(docLines)) = 0 THEN FALSE ELSE hasConflicts)

---------------------------------------------------------------------------
(* SpecStage: one GitBuffer, the chunk commands and the refresh they arm.  *)
(* A patch git applies takes its change out of the diff it was read from;  *)
(* the change it adds to the other diff is not followed.                   *)

InitStage ==
  /\ diffStr = <<>>
  /\ parsed = NoCall
  /\ staged = NoStaged
  /\ gitOutput \in StageGitOutputs
  /\ stagedOutput \in StagedLists
  /\ diffs = <<>>
  /\ currentSigns = <<>>
  /\ gitStatus = <<>>
  /\ placedSigns = <<>>
  /\ line = 0
  /\ chunk = 0
  /\ config = [enableGutters |-> TRUE, realtimeGutters |-> TRUE, conflict |-> [enabled |-> TRUE]]
  /\ CommandIdle
  /\ ExtIdle
  /\ DocIdle

\* a variant that calls refresh() after the try block, apply failed or not
ChunkStage_RefreshAfter(l) ==
  LET k == getChunk(diffs, l)
  IN /\ lastCommand' = "chunkStage"
     /\ line' = l
     /\ chunk' = k
     /\ rejected' = FALSE
     /\ IF k = 0
          THEN /\ errorMessage' = "Not positioned in git chunk"
               /\ gitApply' = NoApply
               /\ UNCHANGED <<gitOutput, refreshArmed>>
        ELSE /\ errorMessage' = ""
             /\ gitApply' = [called |-> TRUE, input |-> stagePatch(RelPath, diffs[k])]
             /\ \/ /\ gitOutput' = [gitOutput EXCEPT !.changes = Without(@, k)]
                   /\ refreshArmed' = TRUE
                \/ /\ refreshArmed' = TRUE
                   /\ UNCHANGED gitOutput
     /\ UNCHANGED <<parseVars, extVars, diffs, currentSigns, gitStatus, placedSigns, config, stagedOutput, docVars>>

\* chunkStage with the cursor on line l; git apply succeeds or fails
ChunkStage(l) ==
  LET k == getChunk(diffs, l)
  IN /\ lastCommand' = "chunkStage"
     /\ line' = l
     /\ chunk' = k
     /\ rejected' = FALSE
     /\ IF k = 0
          THEN /\ errorMessage' = "Not positioned in git chunk"
               /\ gitApply' = NoApply
               /\ UNCHANGED <<gitOutput, refreshArmed>>
        ELSE /\ errorMessage' = ""
             /\ gitApply' = [called |-> TRUE, input |-> stagePatch(RelPath, diffs[k])]
             /\ \/ /\ gitOutput' = [gitOutput EXCEPT !.changes = Without(@, k)]
                   /\ refreshArmed' = TRUE
                \/ UNCHANGED <<gitOutput, refreshArmed>>
     /\ UNCHANGED <<parseVars, extVars, diffs, currentSigns, gitStatus, placedSigns, config, stagedOutput, docVars>>

\* chunkUnstage with the cursor on line l; git apply succeeds or fails
ChunkUnstage(l) ==
  LET scan == UnstageScan(diffs, 1, l, 0)
      res == StagedResults[stagedOutput]
      chunks == FirstFileChunks(res.chunks)
      k == FindStaged(chunks, l + scan.adjust)
      patch == createUnstagePatch(RelPath, chunks[k])
  IN /\ lastCommand' = "chunkUnstage"
     /\ line' = l
     /\ IF scan.invalid
          THEN /\ errorMessage' = "Current line contains unstaged change."
               /\ rejected' = FALSE
               /\ gitApply' = NoApply
               /\ UNCHANGED <<stagedOutput, refreshArmed>>
        ELSE IF res.threw \/ res.chunks = <<>>
          THEN /\ errorMessage' = ""
               /\ rejected' = TRUE
               /\ gitApply' = NoApply
               /\ UNCHANGED <<stagedOutput, refreshArmed>>
        ELSE IF k = 0
          THEN /\ errorMessage' = "Unable to find staged chunk on current line"
               /\ rejected' = FALSE
               /\ gitApply' = NoApply
               /\ UNCHANGED <<stagedOutput, refreshArmed>>
        ELSE IF patch = <<>>
          THEN /\ errorMessage' = ""
               /\ rejected' = FALSE
               /\ gitApply' = NoApply
               /\ UNCHANGED <<stagedOutput, refreshArmed>>
        ELSE /\ rejected' = FALSE
             /\ gitApply' = [called |-> TRUE, input |-> patch]
             /\ \/ /\ errorMessage' = ""
                   /\ stagedOutput' = Without(stagedOutput, k)
                   /\ refreshArmed' = TRUE
                \/ /\ errorMessage' = "Unable to apply patch"
                   /\ UNCHANGED <<stagedOutput, refreshArmed>>
     /\ UNCHANGED <<parseVars, extVars, gitOutput, diffs, currentSigns, gitStatus, placedSigns, chunk, config, docVars>>

\* the timer of the debounced refresh fires: _refresh
Refresh ==
  /\ refreshArmed
  /\ refreshArmed' = FALSE
  /\ diffDocument(FALSE)
  /\ parseConflicts
  /\ UNCHANGED <<parseVars, extVars, gitOutput, line, chunk, config, stagedOutput, lastCommand, gitApply,
                 errorMessage, rejected, reference, docLines>>

NextStage ==
  \/ \E force \in BOOLEAN : DiffDocument(force)
  \/ \E l \in CursorLines : ChunkStage(l)
  \/ \E l \in CursorLines : ChunkUnstage(l)
  \/ Refresh

SpecStage == InitStage /\ [][NextStage]_vars

---------------------------------------------------------------------------
(* Claims about the patches (SpecStage).                                   *)

\* the step is one of a chunk command
CommandStep ==
  <<lastCommand, line, gitApply, errorMessage, rejected>>'
    # <<lastCommand, line, gitApply, errorMessage, rejected>>

\* the step is a chunkStage that handed a patch to git apply
StageApplyStep == lastCommand' = "chunkStage" /\ gitApply'.called /\ CommandStep

\* the patch handed to git apply in the step
PatchText == gitApply'.input

\* a header with both counts written out
FullHeader(a, b, c, d) ==
  FormatHeader([a |-> a, b |-> [omit |-> FALSE, n |-> b], c |-> c, d |-> [omit |-> FALSE, n |-> d],
                ctx |-> <<>>])

\* the four lines before the header, for the path f
EnvelopeOfF ==
  << <<"d", "i", "f", "f", " ", "-", "-", "g", "i", "t", " ", "a", "/", "f", " ", "b", "/", "f">>,
     <<"i", "n", "d", "e", "x", " ", "0", "0", "0", "0", "0", "0", ".", ".", "0", "0", "0", "0", "0", "0", " ", "1", "0", "0", "6", "4", "4">>,
     <<"-", "-", "-", " ", "a", "/", "f">>,
     <<"+", "+", "+", " ", "b", "/", "f">> >>

\* the text of a patch: each of its lines, the last one too, ends with a newline
TextOf(ls) == JoinLines(ls)

\* what follows the envelope in a patch text
AfterEnvelope(t) == SubSeq(t, Len(TextOf(EnvelopeOfF)) + 1, Len(t))

\* C11 as claimed: the patch chunkStage hands to git apply is the envelope,
\* the stored head of the hunk, the lines of the hunk and an empty last element.
C11_Original ==
  [][StageApplyStep =>
       PatchText = TextOf(EnvelopeOfF \o <<diffs[chunk'].head>> \o diffs[chunk'].lines)]_vars

\* the header chunkStage is found to write for hunk h
StageHeaderOf(h) ==
  IF h.changeType = Add
    THEN FullHeader(h.removed.start + 1, 0, h.removed.start + 1, h.added.count)
  ELSE IF h.changeType = Delete
    THEN FullHeader(h.removed.start, h.removed.count, h.removed.start, 0)
  ELSE FullHeader(h.removed.start, h.removed.count, h.removed.start, h.added.count)

\* C11 as amended: the patch chunkStage hands to git apply is the envelope, a
\* header written anew from the hunk, the lines of the hunk in order and an
\* empty last element; the header is `@@ -r,0 +r,d @@` with r = removed.start + 1
\* for an Add, `@@ -r,b +r,0 @@` with r = removed.start for a Delete and
\* `@@ -r,b +r,d @@` for a Change (b = removed.count, d = added.count).
C11_StagePatch ==
  [][StageApplyStep =>
       PatchText = TextOf(EnvelopeOfF \o <<StageHeaderOf(diffs[chunk'])>> \o diffs[chunk'].lines)]_vars

C11_Witness ==
  /\ lastCommand = "chunkStage"
  /\ gitApply.called
  /\ refreshArmed
  /\ chunk # 0 /\ chunk <= Len(diffs)
  /\ diffs[chunk].changeType = Change /\ Len(diffs[chunk].lines) >= 3
  /\ Len(SplitChar(gitApply.input, "\n")) = 6 + Len(diffs[chunk].lines)

\* the step is a chunkUnstage that handed a patch to git apply
UnstageApplyStep == lastCommand' = "chunkUnstage" /\ gitApply'.called /\ CommandStep

\* the staged chunk of the index before the step (the index holds one at most)
StagedChunk == StagedResults[stagedOutput].chunks[1]

\* C12 as claimed: the header of the patch of createUnstagePatch has the add
\* range of the chunk as its old range and the remove range of the chunk as its
\* new range.
C12_Original ==
  [][UnstageApplyStep =>
       /\ StartsWith(PatchText, TextOf(EnvelopeOfF))
       /\ StartsWith(AfterEnvelope(PatchText),
                     FullHeader(StagedChunk.add.lnum, StagedChunk.add.count,
                                StagedChunk.remove.lnum, StagedChunk.remove.count) \o <<"\n">>)]_vars

\* the leading character of a body line, flipped
Flipped(c) == IF c = "-" THEN "+" ELSE IF c = "+" THEN "-" ELSE c

\* the lines ls, each with its leading character flipped
FlippedLines(ls) == [i \in 1..Len(ls) |-> <<Flipped(ls[i][1])>> \o Tail(ls[i])]

\* C13: the body of the patch of createUnstagePatch is the lines of the chunk
\* in the same order and number (after the envelope and one header line); each
\* line differs from the original in its leading character only (- becomes +,
\* + becomes -), and reversing the lines twice gives the original lines.
C13_ReversedBody ==
  [][UnstageApplyStep =>
       LET ls == StagedChunk.lines
           body == TextOf(FlippedLines(ls))
           envelope == TextOf(EnvelopeOfF)
           last == Len(PatchText) - Len(body)
       IN /\ StartsWith(PatchText, envelope)
          /\ last > Len(envelope)
          /\ SubSeq(PatchText, last + 1, Len(PatchText)) = body
          /\ PatchText[last] = "\n"
          /\ \A i \in (Len(envelope) + 1)..(last - 1) : PatchText[i] # "\n"
          /\ [i \in 1..Len(ls) |-> reverseLine(reverseLine(ls[i]))] = ls]_vars

C13_Witness ==
  /\ lastCommand = "chunkUnstage"
  /\ gitApply.called
  /\ stagedOutput = <<>>
  /\ LET ls == SplitChar(gitApply.input, "\n")
     IN /\ Len(ls) >= 9
        /\ ls[6][1] = "+" /\ ls[Len(ls) - 1][1] = "-"

\* chunkStage ran with the cursor inside no hunk
NoChunkToStage == lastCommand' = "chunkStage" /\ chunk' = 0

\* chunkUnstage ran with the cursor outside the unstaged changes and found
\* nothing staged, no staged chunk on its line, or a chunk of no line at all
NoChunkToUnstage ==
  LET scan == UnstageScan(diffs, 1, line', 0)
      res == StagedResults[stagedOutput]
      k == FindStaged(res.chunks, line' + scan.adjust)
  IN /\ lastCommand' = "chunkUnstage"
     /\ ~scan.invalid
     /\ \/ res.threw
        \/ res.chunks = <<>>
        \/ k = 0
        \/ res.chunks[k].remove.count = 0 /\ res.chunks[k].add.count = 0

\* C14 as claimed: a chunk command run with the cursor inside no chunk reports
\* it to the user (by a message, or at least by failing) and hands nothing to
\* git apply.
C14_Original ==
  [][(CommandStep /\ (NoChunkToStage \/ NoChunkToUnstage)) =>
       /\ errorMessage' # "" \/ rejected'
       /\ ~gitApply'.called]_vars

---------------------------------------------------------------------------
(* chunkUndo (src/model/repo.ts) and the buffer it edits.                  *)

\* buffer.setLines(repl, { start, end, strictIndexing: false }): the lines
\* from index start up to index end (counted from 0, end excluded) are
\* replaced; an index below 0 counts from the end, an index out of range is
\* moved to the nearest one in range, and start above end changes nothing
SetLines(buf, start, end, repl) ==
  LET n == Len(buf)
      Norm(i) == LET j == IF i < 0 THEN n + 1 + i ELSE i
                 IN IF j < 0 THEN 0 ELSE IF j > n THEN n ELSE j
      from == Norm(start)
      to == Norm(end)
  IN IF from > to THEN buf
     ELSE SubSeq(buf, 1, from) \o repl \o SubSeq(buf, to + 1, n)

\* lines.filter(s => s.startsWith(c)), c one character
LinesWith(ls, c) == SelectSeq(ls, LAMBDA l : StartsWith(l, <<c>>))

\* .map(s => s.slice(1))
Sliced(ls) == [i \in 1..Len(ls) |-> Slice1(ls[i])]

\* mutant of UndoLines: a Delete hunk is put back like any other hunk
UndoLines_DeleteAsChange(buf, diff) ==
  SetLines(buf, diff.start - 1, diff.start - 1 + Len(LinesWith(diff.lines, "+")),
           Sliced(LinesWith(diff.lines, "-")))

\* the buffer after chunkUndo has put back the lines of hunk diff
UndoLines(buf, diff) ==
  LET added == Sliced(LinesWith(diff.lines, "-"))
      removeCount == Len(LinesWith(diff.lines, "+"))
  IN IF diff.changeType = Delete
       THEN SetLines(buf, diff.start, diff.start, added)
     ELSE SetLines(buf, diff.start - 1, diff.start - 1 + removeCount, added)

---------------------------------------------------------------------------
(* The staged content, the edits made to it in the buffer and the diff git *)
(* prints for them.                                                        *)

\* line i of the staged content; some lines start with - or +
RefLine(i) ==
  (IF i % 3 = 1 THEN <<"r">> ELSE IF i % 3 = 2 THEN <<"-">> ELSE <<"+">>) \o ToDigits(i)

Reference == [i \in 1..MaxRef |-> RefLine(i)]

\* line j of the lines edit number k puts in; some start with - or +
NewLine(k, j) ==
  (IF j % 3 = 1 THEN <<"n">> ELSE IF j % 3 = 2 THEN <<"+">> ELSE <<"-">>) \o ToDigits(10 * k + j)

NewLines(k, d) == [j \in 1..d |-> NewLine(k, j)]

\* an edit takes b lines out from line a on and puts d lines in; with b = 0
\* the lines are put in after line a
Edits ==
  {e \in [a : 0..MaxRef, b : 0..MaxCount, d : 0..MaxCount] :
     /\ e.b + e.d > 0
     /\ e.b > 0 => (e.a >= 1 /\ e.a + e.b - 1 <= MaxRef)}

FirstTouched(e) == IF e.b = 0 THEN e.a + 1 ELSE e.a
LastTouched(e) == IF e.b = 0 THEN e.a ELSE e.a + e.b - 1

\* one edit, or two with an untouched line between them
EditLists ==
  {<<e>> : e \in Edits}
    \cup {ee \in Edits \X Edits : FirstTouched(ee[2]) >= LastTouched(ee[1]) + 2}

\* the buffer: the staged content with the edits made, from line i and edit k on
RECURSIVE EditedFrom(_, _, _)
EditedFrom(edits, i, k) ==
  IF k > Len(edits) THEN SubSeq(Reference, i, MaxRef)
  ELSE SubSeq(Reference, i, FirstTouched(edits[k]) - 1) \o NewLines(k, edits[k].d)
         \o EditedFrom(edits, LastTouched(edits[k]) + 1, k + 1)

Edited(edits) == EditedFrom(edits, 1, 1)

\* the hunk git diff -U0 prints for edit k; offset: the lines the edits before
\* it have put in less those they took out
EditHunk(edits, k, offset) ==
  LET e == edits[k]
      c == IF e.d = 0 THEN LastTouched(e) + offset - e.b
           ELSE FirstTouched(e) + offset
  IN <<FormatHeader([a |-> e.a, b |-> GitCount(e.b), c |-> c, d |-> GitCount(e.d), ctx |-> <<>>])>>
       \o [j \in 1..e.b |-> <<"-">> \o Reference[e.a + j - 1]]
       \o [j \in 1..e.d |-> <<"+">> \o NewLine(k, j)]

RECURSIVE EditHunksFrom(_, _, _)
EditHunksFrom(edits, k, offset) ==
  IF k > Len(edits) THEN <<>>
  ELSE EditHunk(edits, k, offset)
         \o EditHunksFrom(edits, k + 1, offset + edits[k].d - edits[k].b)

\* the cached hunks of the buffer: parseDiff on the diff of the edits
EditDiffs(edits) == parseDiff(DiffText(EditHunksFrom(edits, 1, 0))).diffs

---------------------------------------------------------------------------
(* SpecUndo: one GitBuffer whose cached hunks are those of its buffer, and *)
(* chunkUndo under a moving cursor.                                        *)

InitUndo ==
  /\ diffStr = <<>>
  /\ parsed = NoCall
  /\ staged = NoStaged
  /\ \E edits \in EditLists :
       /\ gitOutput = [indexed |-> TRUE, edits |-> edits]
       /\ diffs = EditDiffs(edits)
       /\ docLines = Edited(edits)
  /\ reference = Reference
  /\ hasConflicts = FALSE
  /\ conflicts = <<>>
  /\ currentSigns = <<>>
  /\ gitStatus = <<>>
  /\ placedSigns = <<>>
  /\ line = 0
  /\ chunk = 0
  /\ config = [enableGutters |-> TRUE, realtimeGutters |-> TRUE, conflict |-> [enabled |-> TRUE]]
  /\ stagedOutput = <<>>
  /\ CommandIdle
  /\ ExtIdle

\* the buffer is not let grow beyond the longest buffer the edits make
MaxDoc == MaxRef + 2 * MaxCount

\* chunkUndo with the cursor on line l of the buffer
ChunkUndo(l) ==
  LET k == getChunk(diffs, l)
  IN /\ l <= Len(docLines) \/ l = 1
     /\ k # 0 => Len(UndoLines(docLines, diffs[k])) <= MaxDoc
     /\ lastCommand' = "chunkUndo"
     /\ line' = l
     /\ chunk' = k
     /\ docLines' = (IF k = 0 THEN docLines ELSE UndoLines(docLines, diffs[k]))
     /\ UNCHANGED <<parseVars, extVars, gitOutput, diffs, currentSigns, gitStatus, placedSigns, config,
                    stagedOutput, gitApply, errorMessage, rejected, refreshArmed, reference,
                    hasConflicts, conflicts>>

NextUndo == \E l \in 1..MaxDoc : ChunkUndo(l)

SpecUndo == InitUndo /\ [][NextUndo]_vars

---------------------------------------------------------------------------
(* Claims about chunkUndo (SpecUndo).                                      *)

\* the lines hunk h puts in
PutIn(h) == Sliced(LinesWith(h.lines, "+"))

\* the content ref with hunk h applied, h being in the line numbers of ref
ApplyHunk(ref, h) ==
  IF h.removed.count = 0
    THEN SubSeq(ref, 1, h.removed.start) \o PutIn(h) \o SubSeq(ref, h.removed.start + 1, Len(ref))
  ELSE SubSeq(ref, 1, h.removed.start - 1) \o PutIn(h)
         \o SubSeq(ref, h.removed.start + h.removed.count, Len(ref))

\* the content ref with the hunks hs applied, the last one first
RECURSIVE HunksApplied(_, _)
HunksApplied(ref, hs) ==
  IF hs = <<>> THEN ref
  ELSE HunksApplied(ApplyHunk(ref, hs[Len(hs)]), SubSeq(hs, 1, Len(hs) - 1))

\* the step is a chunkUndo with a hunk under the cursor, taken when the buffer
\* is the staged content with the cached hunks applied
UndoStep ==
  /\ lastCommand' = "chunkUndo"
  /\ chunk' # 0
  /\ docLines = HunksApplied(reference, diffs)

\* C15: if the buffer is the staged content with the cached hunks applied,
\* chunkUndo on the hunk h under the cursor makes it the staged content with
\* every cached hunk but h applied; the lines above and below h stay as they are.
C15_UndoRestores ==
  [][UndoStep =>
       LET h == diffs[chunk']
           above == IF h.changeType = Delete THEN h.start ELSE h.start - 1
           below == Len(docLines) - above - h.added.count
       IN /\ docLines' = HunksApplied(reference, Without(diffs, chunk'))
          /\ SubSeq(docLines', 1, above) = SubSeq(docLines, 1, above)
          /\ SubSeq(docLines', Len(docLines') - below + 1, Len(docLines'))
               = SubSeq(docLines, Len(docLines) - below + 1, Len(docLines))]_vars

C15_Witness ==
  /\ lastCommand = "chunkUndo"
  /\ Len(diffs) = 2
  /\ chunk = 1
  /\ diffs[1].changeType = Delete /\ diffs[1].start = 0
  /\ diffs[2].changeType = Change /\ diffs[2].added.count # diffs[2].removed.count
  /\ docLines = HunksApplied(reference, Without(diffs, 1))
  /\ docLines # HunksApplied(reference, diffs)

---------------------------------------------------------------------------
(* The buffers the conflict parser is run on.                              *)

\* the number of lines of a buffer built from ConflictAlphabet
MaxBuffer == 5

\* '<<<<<<< HEAD': a start marker
StartHead ==
  <<"<", "<", "<", "<", "<", "<", "<", " ", "H", "E", "A", "D">>

\* '<<<<<<< v1: x': a start marker with text after the label
StartNote ==
  <<"<", "<", "<", "<", "<", "<", "<", " ", "v", "1", ":", " ", "x">>

\* '=======': the separator
SepLine ==
  <<"=", "=", "=", "=", "=", "=", "=">>

\* '>>>>>>> branch': an end marker
EndBranch ==
  <<">", ">", ">", ">", ">", ">", ">", " ", "b", "r", "a", "n", "c", "h">>

\* '||||||| merged common ancestors': the marker of the common ancestors
CommonLine ==
  <<"|", "|", "|", "|", "|", "|", "|", " ", "m", "e", "r", "g", "e", "d", " ", "c", "o", "m", "m",
  "o", "n", " ", "a", "n", "c", "e", "s", "t", "o", "r", "s">>

\* 'mine': a line of text
TextMine ==
  <<"m", "i", "n", "e">>

\* '<<<<<<<': seven marker characters and no label
BareStart ==
  <<"<", "<", "<", "<", "<", "<", "<">>

ConflictAlphabet ==
  {StartHead, StartNote, SepLine, EndBranch, CommonLine, TextMine, BareStart}

TextLocal ==
  <<"l", "o", "c", "a", "l", " ", "t", "e", "x", "t">>
TextTheirs ==
  <<"t", "h", "e", "i", "r", "s">>
TextTail ==
  <<"t", "a", "i", "l">>

\* the buffer of the example: a conflict between HEAD and branch
ExampleBuffer ==
  <<TextLocal, StartHead, TextMine, SepLine, TextTheirs, EndBranch, TextTail>>

ConflictBuffers == SeqsUpTo(ConflictAlphabet, MaxBuffer) \cup {ExampleBuffer}

---------------------------------------------------------------------------
(* SpecConflict: one GitBuffer of an unmerged file and the refresh its     *)
(* constructor starts.                                                     *)

\* the diff source finds the file indexed; no chunk command is run
ConflictIdle ==
  /\ diffStr = <<>>
  /\ parsed = NoCall
  /\ staged = NoStaged
  /\ gitOutput = [indexed |-> TRUE, changes |-> <<>>]
  /\ stagedOutput = <<>>
  /\ diffs = <<>>
  /\ currentSigns = <<>>
  /\ gitStatus = <<>>
  /\ placedSigns = <<>>
  /\ line = 0
  /\ chunk = 0
  /\ config = [enableGutters |-> TRUE, realtimeGutters |-> TRUE, conflict |-> [enabled |-> TRUE]]
  /\ lastCommand = ""
  /\ gitApply = NoApply
  /\ errorMessage = ""
  /\ rejected = FALSE
  /\ reference = <<>>
  /\ ExtIdle

\* the constructor got hasConflicts from Repo.hasConflicts and has called
\* _refresh, which has yet to run
InitConflict ==
  /\ ConflictIdle
  /\ refreshArmed = TRUE
  /\ docLines \in ConflictBuffers
  /\ hasConflicts = TRUE
  /\ conflicts = <<>>

NextConflict == Refresh

SpecConflict == InitConflict /\ [][NextConflict]_vars

---------------------------------------------------------------------------
(* Claims about parseConflicts (SpecConflict).                             *)

\* the refresh has run
Refreshed == ~refreshArmed

IsStart(i) == startPattern(docLines[i]).found
IsSep(i) == sepPattern(docLines[i])
IsEnd(i) == endPattern(docLines[i]).found

\* the cached list holds a conflict with these three lines
Emitted(s, p, e) ==
  \E k \in 1..Len(conflicts) :
    conflicts[k].start = s /\ conflicts[k].sep = p /\ conflicts[k].end = e

\* s is a start marker, p the first separator after it, e the first end marker
\* after p, with no start marker inside, no end marker before p and no
\* separator after p
WellFormed(s, p, e) ==
  /\ s < p /\ p < e
  /\ IsStart(s) /\ IsSep(p) /\ IsEnd(e)
  /\ \A j \in (s + 1)..(p - 1) : ~IsSep(j) /\ ~IsEnd(j)
  /\ \A j \in (p + 1)..(e - 1) : ~IsEnd(j) /\ ~IsSep(j)
  /\ \A j \in (s + 1)..(e - 1) : ~IsStart(j)

LabelHead == <<"H", "E", "A", "D">>
LabelBranch == <<"b", "r", "a", "n", "c", "h">>

\* C16: after the refresh the cached conflicts are the triples (s, p, e) of a
\* start marker, the first separator after it and the first end marker after
\* that, with no other marker of the three kinds out of place between them;
\* each is listed once, with the labels of its lines s and e; the buffer of the
\* example gives the one conflict 2, 4, 6 between HEAD and branch, without a
\* common field.
C16_ConflictTriples ==
  Refreshed =>
    LET n == Len(docLines)
    IN /\ \A s \in 1..n, p \in 1..n, e \in 1..n : Emitted(s, p, e) <=> WellFormed(s, p, e)
       /\ \A k \in 1..Len(conflicts) :
            /\ conflicts[k].start \in 1..n /\ conflicts[k].sep \in 1..n /\ conflicts[k].end \in 1..n
            /\ conflicts[k].current = startPattern(docLines[conflicts[k].start]).rev
            /\ conflicts[k].incoming = endPattern(docLines[conflicts[k].end]).rev
            /\ \A j \in 1..Len(conflicts) : conflicts[j].start = conflicts[k].start => j = k
       /\ docLines = ExampleBuffer =>
            conflicts = << [start |-> 2, sep |-> 4, end |-> 6, current |-> LabelHead,
                            incoming |-> LabelBranch] >>

\* a start marker is abandoned for a later one, whose conflict is emitted
C16_Witness ==
  /\ Refreshed
  /\ Len(conflicts) = 1
  /\ conflicts[1].start = 3
  /\ IsStart(1)
  /\ IsSep(2)

\* C17: every cached conflict has 1 <= start < sep < end <= the number of lines
\* of the buffer; a common field lies between start and sep, on a line that is
\* the marker of the common ancestors.
C17_ConflictOrder ==
  Refreshed =>
    \A k \in 1..Len(conflicts) :
      LET c == conflicts[k]
      IN /\ 1 <= c.start /\ c.start < c.sep /\ c.sep < c.end /\ c.end <= Len(docLines)
         /\ "common" \in DOMAIN c =>
              /\ c.start < c.common /\ c.common < c.sep
              /\ commonPattern(docLines[c.common])

\* a conflict with its common ancestors, after an abandoned one
C17_Witness ==
  /\ Refreshed
  /\ Len(conflicts) = 1
  /\ "common" \in DOMAIN conflicts[1]
  /\ conflicts[1].start > 1

---------------------------------------------------------------------------
(* SpecMarkers: one GitBuffer of a file that was unmerged when it was      *)
(* opened, the edits of its text and the refreshes they arm.               *)

\* the number of lines of an edited buffer
MaxEdited == 3

MarkerAlphabet == {StartHead, SepLine, EndBranch, TextMine}

InitMarkers ==
  /\ ConflictIdle
  /\ refreshArmed = TRUE
  /\ docLines \in SeqsUpTo(MarkerAlphabet, MaxEdited)
  /\ hasConflicts = TRUE
  /\ conflicts = <<>>

\* the buffers one edit away: a line replaced, inserted or deleted
EditsOf(ls) ==
  {[ls EXCEPT ![i] = l] : i \in 1..Len(ls), l \in MarkerAlphabet}
    \cup {SubSeq(ls, 1, i - 1) \o <<l>> \o SubSeq(ls, i, Len(ls)) :
            i \in 1..(IF Len(ls) < MaxEdited THEN Len(ls) + 1 ELSE 0), l \in MarkerAlphabet}
    \cup {SubSeq(ls, 1, i - 1) \o SubSeq(ls, i + 1, Len(ls)) : i \in 1..Len(ls)}

\* the text of the buffer changes: onDidChangeTextDocument calls buf.refresh()
TextChanged(ls) ==
  /\ ls # docLines
  /\ docLines' = ls
  /\ refreshArmed' = TRUE
  /\ UNCHANGED <<parseVars, extVars, gitOutput, diffs, currentSigns, gitStatus, placedSigns, line, chunk,
                 config, stagedOutput, lastCommand, gitApply, errorMessage, rejected, reference,
                 hasConflicts, conflicts>>

NextMarkers ==
  \/ \E ls \in EditsOf(docLines) : TextChanged(ls)
  \/ Refresh

SpecMarkers == InitMarkers /\ [][NextMarkers]_vars

---------------------------------------------------------------------------
(* Claims about the has-conflicts flag (SpecMarkers).                      *)

\* the step is a refresh
RefreshStep == refreshArmed /\ ~refreshArmed'

\* C18: a refresh that parses the buffer and finds no conflict clears the
\* flag, and a refresh of a buffer that holds a conflict, be it after the flag
\* was cleared, leaves the conflicts of the buffer in the cached list.
C18_Original ==
  [][RefreshStep =>
       /\ (hasConflicts /\ ParsedConflicts(docLines) = <<>> => ~hasConflicts')
       /\ (ParsedConflicts(docLines) # <<>> => conflicts' = ParsedConflicts(docLines))]_vars

---------------------------------------------------------------------------
(* SpecGutters: one GitBuffer whose diff changes under it, with the save   *)
(* and the toggling of the gutters.                                        *)

InitGutters ==
  /\ diffStr = <<>>
  /\ parsed = NoCall
  /\ staged = NoStaged
  /\ gitOutput \in StageGitOutputs
  /\ stagedOutput = <<>>
  /\ diffs = <<>>
  /\ currentSigns = <<>>
  /\ gitStatus = <<>>
  /\ placedSigns = <<>>
  /\ line = 0
  /\ chunk = 0
  /\ config \in [enableGutters : BOOLEAN, realtimeGutters : BOOLEAN, conflict : {[enabled |-> TRUE]}]
  /\ lastCommand = ""
  /\ gitApply = NoApply
  /\ errorMessage = ""
  /\ rejected = FALSE
  /\ refreshArmed = TRUE
  /\ ExtIdle
  /\ DocIdle

\* the text of the buffer is edited, or the index is changed and the editor
\* gets the focus back: the diff source has another answer, and the handler
\* calls buf.refresh()
DiffSourceChanged(out) ==
  /\ out # gitOutput
  /\ gitOutput' = out
  /\ refreshArmed' = TRUE
  /\ UNCHANGED <<parseVars, extVars, diffs, currentSigns, gitStatus, placedSigns, line, chunk, config,
                 stagedOutput, lastCommand, gitApply, errorMessage, rejected, docVars>>

\* the BufWritePre handler: updateGutters unless the gutters are off or realtime
BufWritePre ==
  /\ config.enableGutters
  /\ ~config.realtimeGutters
  /\ placedSigns' = PlaceAll(currentSigns)
  /\ UNCHANGED <<parseVars, extVars, gitOutput, diffs, currentSigns, gitStatus, line, chunk, config,
                 commandVars, docVars>>

\* git.toggleGutters: off, the signs are unplaced; on, this.diffs = [] and
\* diffDocument(true)
ToggleGutters ==
  LET enabled == ~config.enableGutters
      res == DiffResults[gitOutput]
  IN /\ config' = [config EXCEPT !.enableGutters = enabled]
     /\ IF ~enabled
          THEN /\ placedSigns' = <<>>
               /\ UNCHANGED <<diffs, currentSigns, gitStatus>>
        ELSE IF ~res.defined \/ res.threw
          THEN /\ diffs' = <<>>
               /\ UNCHANGED <<currentSigns, gitStatus, placedSigns>>
        ELSE IF Len(res.diffs) = 0
          THEN /\ currentSigns' = <<>>
               /\ diffs' = <<>>
               /\ setBufferStatus(<<>>)
               /\ placedSigns' = <<>>
        ELSE /\ diffs' = res.diffs
             /\ setBufferStatus(StatusText(Counters(res.diffs)))
             /\ currentSigns' = SignsFrom(res.diffs, 1)
             /\ placedSigns' = PlaceAll(SignsFrom(res.diffs, 1))
     /\ UNCHANGED <<parseVars, extVars, gitOutput, line, chunk, commandVars, docVars>>

NextGutters ==
  \/ \E out \in StageGitOutputs : DiffSourceChanged(out)
  \/ Refresh
  \/ BufWritePre
  \/ ToggleGutters

SpecGutters == InitGutters /\ [][NextGutters]_vars

---------------------------------------------------------------------------
(* Claims about the refresh and the gutters (SpecGutters).                 *)

\* the diff source reports no diff: getDiff returns undefined (the file is not
\* indexed, or its staged content cannot be fetched) or git prints nothing
NoDiffReported ==
  \/ ~DiffResults[gitOutput].defined
  \/ ~DiffResults[gitOutput].threw /\ DiffResults[gitOutput].diffs = <<>>

\* C19: a refresh taken while the diff source reports no diff leaves the
\* buffer with no cached hunk and no sign in its list.
C19_Original ==
  [][RefreshStep /\ NoDiffReported => diffs' = <<>> /\ currentSigns' = <<>>]_vars

\* C20: with realtimeGutters off, a refresh leaves the signs placed in the
\* sign column as they are; only the save and the toggling of the gutters
\* change them.
C20_Original ==
  [][~config.realtimeGutters /\ RefreshStep => placedSigns' = placedSigns]_vars

---------------------------------------------------------------------------
(* SpecScan: one GitBuffer with up to two unstaged hunks and chunkUnstage  *)
(* under a moving cursor.                                                  *)

\* nothing staged, or one line changed at line 1
ScanStaged == {<<>>, <<[b |-> 1, c |-> 1, d |-> 1]>>}

InitScan ==
  /\ diffStr = <<>>
  /\ parsed = NoCall
  /\ staged = NoStaged
  /\ gitOutput \in GitOutputs
  /\ stagedOutput \in ScanStaged
  /\ diffs = <<>>
  /\ currentSigns = <<>>
  /\ gitStatus = <<>>
  /\ placedSigns = <<>>
  /\ line = 0
  /\ chunk = 0
  /\ config = [enableGutters |-> TRUE, realtimeGutters |-> TRUE, conflict |-> [enabled |-> TRUE]]
  /\ CommandIdle
  /\ ExtIdle
  /\ DocIdle

NextScan ==
  \/ DiffDocument(FALSE)
  \/ \E l \in CursorLines : ChunkUnstage(l)
  \/ Refresh

SpecScan == InitScan /\ [][NextScan]_vars

---------------------------------------------------------------------------
(* Claims about the staged lookup of chunkUnstage (SpecScan, SpecStage).   *)

\* the step is a chunkUnstage
UnstageStep == lastCommand' = "chunkUnstage" /\ CommandStep

\* the cached hunks lie one after the other, as git prints them
AscendingEnds ==
  \A i \in 1..Len(diffs) : \A j \in (i + 1)..Len(diffs) : diffs[i].end < diffs[j].start

\* the lines added less the lines removed by the first n hunks that end above line l
RECURSIVE DeltaAbove(_, _)
DeltaAbove(n, l) ==
  IF n = 0 THEN 0
  ELSE DeltaAbove(n - 1, l)
         + (IF diffs[n].end < l THEN diffs[n].added.count - diffs[n].removed.count ELSE 0)

C29_Original ==
  [][UnstageStep /\ getChunk(diffs, line') # 0
       /\ diffs[getChunk(diffs, line')].changeType \in {Add, Change}
       /\ diffs[getChunk(diffs, line')].start >= 1 =>
       errorMessage' = "Current line contains unstaged change." /\ ~gitApply'.called]_vars

---------------------------------------------------------------------------
(* Claims about a failing git apply (SpecStage) and about the equality     *)
(* check of diffDocument (Spec).                                           *)

\* the step is a chunk command whose git apply failed: the patch was handed
\* over and the index is as it was
ApplyFailedStep ==
  /\ gitApply'.called
  /\ CommandStep
  /\ gitOutput' = gitOutput
  /\ stagedOutput' = stagedOutput

\* C25: a chunkStage or chunkUnstage whose git apply fails leaves the cached
\* hunks, the current signs and the status of the buffer as they were and arms
\* no refresh; no chunk command changes the three by itself.
C25_FailedApply ==
  [][(ApplyFailedStep => refreshArmed' = refreshArmed)
       /\ (CommandStep => diffs' = diffs /\ currentSigns' = currentSigns /\ gitStatus' = gitStatus)]_vars

\* a chunkStage of a cached hunk has failed: the change is still unstaged and
\* no refresh is armed
C25_Witness ==
  /\ lastCommand = "chunkStage"
  /\ gitApply.called
  /\ Len(gitOutput.changes) = 1
  /\ diffs # <<>>
  /\ currentSigns # <<>>
  /\ ~refreshArmed

\* C26: a diffDocument whose computed hunks are some and equal the cached
\* hunks changes neither the cached hunks, nor the current signs, nor the
\* status, nor the signs placed, forced or not: a step that changes one of
\* them is not one whose computed hunks equal the cached ones.
C26_EqualNoOp ==
  [][(/\ diffs # <<>>
      /\ <<diffs, currentSigns, gitStatus, placedSigns>>'
           # <<diffs, currentSigns, gitStatus, placedSigns>>)
       => ~(/\ DiffResults[gitOutput].defined
            /\ ~DiffResults[gitOutput].threw
            /\ DiffResults[gitOutput].diffs = diffs)]_vars

\* the hunks are cached and no sign is placed, the gutters being updated on
\* save only: a forced diffDocument would place them if it went on
C26_Witness ==
  /\ diffs # <<>>
  /\ DiffResults[gitOutput].diffs = diffs
  /\ config.enableGutters
  /\ ~config.realtimeGutters
  /\ currentSigns # <<>>
  /\ placedSigns = <<>>

---------------------------------------------------------------------------
(* The conflict commands: keepCurrent, keepIncoming, keepBoth and the      *)
(* jumps to the next and the previous conflict.                            *)

\* the enum ConflictPart
Current == "Current"
Incoming == "Incoming"
Both == "Both"
ConflictPart == {Current, Incoming, Both}

\* the commands of the manager that call conflictKeepPart
KeepCommand == [p \in ConflictPart |-> "keep" \o p]

\* the Ex command ':a,bd' on the lines of a buffer; a buffer whose lines are
\* all deleted shows one empty line
DeleteLines(lines, a, b) ==
  LET rest == SubSeq(lines, 1, a - 1) \o SubSeq(lines, b + 1, Len(lines))
  IN IF rest = <<>> THEN << <<>> >> ELSE rest

\* the editor refuses a range that leaves the buffer or runs backwards
ValidRange(lines, a, b) == 1 <= a /\ a <= b /\ b <= Len(lines)

\* nvim.command('a,bd | c,dd | ...'): the deletions run in the order written,
\* and the first one refused ends the command with an error
RECURSIVE ExDeletes(_, _)
ExDeletes(lines, ranges) ==
  IF ranges = <<>> THEN [lines |-> lines, failed |-> FALSE]
  ELSE IF ~ValidRange(lines, Head(ranges)[1], Head(ranges)[2])
    THEN [lines |-> lines, failed |-> TRUE]
  ELSE ExDeletes(DeleteLines(lines, Head(ranges)[1], Head(ranges)[2]), Tail(ranges))

\* conflict.common, 0 for a conflict without the field
CommonOf(conflict) == IF "common" \in DOMAIN conflict THEN conflict.common ELSE 0

\* a variant that deletes the start marker first
KeepRanges_StartFirst(conflict, part) ==
  IF part = Current
    THEN LET start == IF CommonOf(conflict) # 0 THEN conflict.common ELSE conflict.sep
         IN << <<conflict.start, conflict.start>>, <<start, conflict.end>> >>
  ELSE IF part = Incoming
    THEN << <<conflict.start, conflict.start>>, <<conflict.start, conflict.sep>> >>
  ELSE IF CommonOf(conflict) # 0
    THEN << <<conflict.start, conflict.start>>, <<conflict.common, conflict.sep>>,
            <<conflict.end, conflict.end>> >>
  ELSE << <<conflict.start, conflict.start>>, <<conflict.sep, conflict.sep>>,
          <<conflict.end, conflict.end>> >>

\* the ranges of the command conflictKeepPart builds, in the order written
KeepRanges(conflict, part) ==
  IF part = Current
    THEN LET start == IF CommonOf(conflict) # 0 THEN conflict.common ELSE conflict.sep
         IN << <<start, conflict.end>>, <<conflict.start, conflict.start>> >>
  ELSE IF part = Incoming
    THEN << <<conflict.end, conflict.end>>, <<conflict.start, conflict.sep>> >>
  ELSE IF CommonOf(conflict) # 0
    THEN << <<conflict.end, conflict.end>>, <<conflict.common, conflict.sep>>,
            <<conflict.start, conflict.start>> >>
  ELSE << <<conflict.end, conflict.end>>, <<conflict.sep, conflict.sep>>,
          <<conflict.start, conflict.start>> >>

\* the loop of conflictKeepPart: the first conflict with start <= line <= end
\* (0: the cursor is on none)
ConflictAt(cs, l) ==
  IF \E k \in 1..Len(cs) : cs[k].start <= l /\ cs[k].end >= l
    THEN CHOOSE k \in 1..Len(cs) :
           /\ cs[k].start <= l /\ cs[k].end >= l
           /\ \A j \in 1..(k - 1) : ~(cs[j].start <= l /\ cs[j].end >= l)
  ELSE 0

\* conflictKeepPart with the cursor on line l; the change of the text makes
\* the manager call buf.refresh()
ConflictKeepPart(part, l) ==
  LET k == ConflictAt(conflicts, l)
      res == ExDeletes(docLines, KeepRanges(conflicts[k], part))
  IN /\ l \in 1..Len(docLines)
     /\ lastCommand' = KeepCommand[part]
     /\ line' = l
     /\ IF Len(conflicts) = 0
          THEN /\ warningMessage' = "No conflicts detected"
               /\ rejected' = FALSE
               /\ UNCHANGED <<docLines, refreshArmed>>
        ELSE IF k = 0
          THEN /\ warningMessage' = "Not positioned on a conflict"
               /\ rejected' = FALSE
               /\ UNCHANGED <<docLines, refreshArmed>>
        ELSE /\ warningMessage' = ""
             /\ rejected' = res.failed
             /\ docLines' = res.lines
             /\ refreshArmed' = (refreshArmed \/ res.lines # docLines)
     /\ UNCHANGED <<parseVars, gitOutput, diffs, currentSigns, gitStatus, placedSigns, chunk,
                    config, stagedOutput, gitApply, errorMessage, reference, hasConflicts,
                    conflicts, cursor, wrapscan, asyncVars, managerVars>>

\* the line window.moveTo({line: Math.max(start - 1, 0)}) puts the cursor on
MoveTarget(start) == (IF start - 1 > 0 THEN start - 1 ELSE 0) + 1

\* the loop of nextConflict and of prevConflict: the first conflict with
\* conflict.start > line (0: none)
FirstAfter(cs, l) ==
  IF \E k \in 1..Len(cs) : cs[k].start > l
    THEN CHOOSE k \in 1..Len(cs) : cs[k].start > l /\ \A j \in 1..(k - 1) : ~(cs[j].start > l)
  ELSE 0

\* the body the two jump commands share
JumpConflict(name, l, wrap) ==
  LET k == FirstAfter(conflicts, l)
  IN /\ l \in 1..Len(docLines)
     /\ lastCommand' = name
     /\ line' = l
     /\ wrapscan' = wrap
     /\ IF Len(conflicts) = 0
          THEN /\ warningMessage' = "No conflicts detected"
               /\ cursor' = l
        ELSE /\ warningMessage' = ""
             /\ cursor' = (IF k # 0 THEN MoveTarget(conflicts[k].start)
                           ELSE IF wrap THEN MoveTarget(conflicts[1].start)
                           ELSE l)
     /\ UNCHANGED <<parseVars, gitOutput, diffs, currentSigns, gitStatus, placedSigns, chunk,
                    config, stagedOutput, gitApply, errorMessage, rejected, refreshArmed, docVars,
                    asyncVars, managerVars>>

nextConflict(l, wrap) == JumpConflict("nextConflict", l, wrap)

prevConflict(l, wrap) == JumpConflict("prevConflict", l, wrap)

\* the number of lines of a buffer built from KeepAlphabet
MaxKeep == 4

KeepAlphabet == {StartHead, SepLine, EndBranch, CommonLine, TextMine}

\* a conflict with the section of the common ancestors
AncestorBuffer ==
  <<TextLocal, StartHead, TextMine, CommonLine, TextTail, SepLine, TextTheirs, EndBranch,
    TextTail>>

\* two conflicts with a line of text between them
TwoConflicts ==
  <<StartHead, TextMine, SepLine, EndBranch, TextTail, StartHead, SepLine, TextTheirs,
    EndBranch>>

KeepBuffers ==
  (SeqsUpTo(KeepAlphabet, MaxKeep) \ {<<>>}) \cup {ExampleBuffer, AncestorBuffer, TwoConflicts}

\* the constructor of a GitBuffer of an unmerged file has called _refresh
InitKeep ==
  /\ ConflictIdle
  /\ refreshArmed = TRUE
  /\ docLines \in KeepBuffers
  /\ hasConflicts = TRUE
  /\ conflicts = <<>>

NextKeep ==
  \/ Refresh
  \/ \E part \in ConflictPart, l \in 1..Len(docLines) : ConflictKeepPart(part, l)

SpecKeep == InitKeep /\ [][NextKeep]_vars

NextJump ==
  \/ Refresh
  \/ \E l \in 1..Len(docLines), wrap \in BOOLEAN : nextConflict(l, wrap)
  \/ \E l \in 1..Len(docLines), wrap \in BOOLEAN : prevConflict(l, wrap)

SpecJump == InitKeep /\ [][NextJump]_vars

---------------------------------------------------------------------------
(* Claims about the conflict commands.                                     *)

\* the lines of a conflict a part names: the current ones lie between the
\* start marker and the common marker (the separator without one), the
\* incoming ones between the separator and the end marker
KeptPart(lines, c, part) ==
  LET mid == IF CommonOf(c) # 0 THEN c.common ELSE c.sep
      cur == SubSeq(lines, c.start + 1, mid - 1)
      inc == SubSeq(lines, c.sep + 1, c.end - 1)
  IN IF part = Current THEN cur ELSE IF part = Incoming THEN inc ELSE cur \o inc

\* a buffer left without lines shows one empty line
ShownAs(lines) == IF lines = <<>> THEN << <<>> >> ELSE lines

\* the numbers of a cached conflict are those of its marker lines
OnMarkers(c) ==
  /\ IsStart(c.start)
  /\ IsSep(c.sep)
  /\ IsEnd(c.end)
  /\ CommonOf(c) # 0 => commonPattern(docLines[c.common])

KeepStep(part) == lastCommand' = KeepCommand[part] /\ ~RefreshStep

\* C27: with the cached conflicts those of the buffer and the cursor on a
\* conflict c, keepCurrent, keepIncoming and keepBoth replace the lines
\* c.start..c.end by the current lines, the incoming lines, or the current
\* lines followed by the incoming lines, and leave every other line as it
\* is; with the cursor on no conflict the buffer is not changed
C27_KeepPart ==
  [][\A part \in ConflictPart :
       KeepStep(part) /\ Refreshed =>
         IF \E k \in 1..Len(conflicts) : conflicts[k].start <= line' /\ line' <= conflicts[k].end
           THEN \E k \in 1..Len(conflicts) :
                  /\ conflicts[k].start <= line' /\ line' <= conflicts[k].end
                  /\ OnMarkers(conflicts[k])
                  /\ ~rejected'
                  /\ docLines' = ShownAs(SubSeq(docLines, 1, conflicts[k].start - 1)
                                         \o KeptPart(docLines, conflicts[k], part)
                                         \o SubSeq(docLines, conflicts[k].end + 1, Len(docLines)))
         ELSE docLines' = docLines]_vars

\* keepBoth has run on the conflict with the common ancestors
C27_Witness ==
  /\ lastCommand = KeepCommand[Both]
  /\ line = 5
  /\ docLines = <<TextLocal, TextMine, TextTheirs, TextTail>>
  /\ ~rejected

\* the last cached conflict that begins before line l (0: none does)
LastBefore(cs, l) ==
  IF \E k \in 1..Len(cs) : cs[k].start < l
    THEN CHOOSE k \in 1..Len(cs) : cs[k].start < l /\ \A j \in (k + 1)..Len(cs) : ~(cs[j].start < l)
  ELSE 0

PrevConflictStep == lastCommand' = "prevConflict" /\ ~RefreshStep

\* C28: prevConflict puts the cursor on the start of the last cached conflict
\* that begins before the cursor line; with none before it, the cursor goes
\* to the last conflict when wrapscan is set and stays where it is otherwise
C28_Original ==
  [][PrevConflictStep /\ Len(conflicts) > 0 =>
       cursor' = (IF LastBefore(conflicts, line') # 0
                    THEN conflicts[LastBefore(conflicts, line')].start
                  ELSE IF wrapscan' THEN conflicts[Len(conflicts)].start
                  ELSE line')]_vars

---------------------------------------------------------------------------
(* SpecAsync: the steps of one GitBuffer between its awaits. _refresh      *)
(* waits for the mutex, then starts diffDocument, which reads the content  *)
(* of the buffer, awaits getDiff and writes when the answer is there;      *)
(* toggleGutters starts diffDocument without the mutex; dispose closes the *)
(* buffer.                                                                 *)

\* the calls of _refresh that can wait for the mutex at a time
MaxWaiting == 2
\* the calls of diffDocument made by toggleGutters that can await getDiff at a time
MaxToggles == 1

NotIndexed == [indexed |-> FALSE, changes |-> <<>>]

\* the answers of the diff source the text of the buffer goes through
AsyncOutputs ==
  {NotIndexed, [indexed |-> TRUE, changes |-> <<>>],
   [indexed |-> TRUE, changes |-> <<[b |-> 1, c |-> 1, d |-> 1]>>],
   [indexed |-> TRUE, changes |-> <<[b |-> 0, c |-> 1, d |-> 2]>>]}

\* the constructor has called _refresh: the mutex was free and diffDocument
\* awaits getDiff
AsyncIdle ==
  /\ diffStr = <<>>
  /\ parsed = NoCall
  /\ staged = NoStaged
  /\ gitOutput \in AsyncOutputs
  /\ stagedOutput = <<>>
  /\ diffs = <<>>
  /\ currentSigns = <<>>
  /\ gitStatus = <<>>
  /\ placedSigns = <<>>
  /\ line = 0
  /\ chunk = 0
  /\ config \in [enableGutters : BOOLEAN, realtimeGutters : BOOLEAN, conflict : {[enabled |-> TRUE]}]
  /\ lastCommand = ""
  /\ gitApply = NoApply
  /\ errorMessage = ""
  /\ rejected = FALSE
  /\ refreshArmed = FALSE
  /\ reference = <<>>
  /\ cursor = 0
  /\ wrapscan = FALSE
  /\ warningMessage = ""
  /\ disposed = FALSE
  /\ waiting = 0
  /\ inflight = <<[byRefresh |-> TRUE, force |-> FALSE, snapshot |-> gitOutput, late |-> FALSE]>>
  /\ latest = gitOutput
  /\ replaced = FALSE
  /\ docOpen = TRUE
  /\ pending = 0
  /\ created = <<>>
  /\ mapEntry = 0

\* the file is unmerged: parseConflicts has run
InitAsync ==
  /\ AsyncIdle
  /\ docLines = ExampleBuffer
  /\ hasConflicts = TRUE
  /\ conflicts = ParsedConflicts(ExampleBuffer)

\* the text of the buffer is changed: the manager finds the GitBuffer in its
\* map and calls buf.refresh()
TextChangeEvent(out) ==
  /\ ~disposed
  /\ DiffSourceChanged(out)

MutexHeld == \E k \in 1..Len(inflight) : inflight[k].byRefresh

\* a call of diffDocument up to its await: it has read the content
Started(byRefresh, force) ==
  [byRefresh |-> byRefresh, force |-> force, snapshot |-> gitOutput, late |-> FALSE]

\* _refresh with the mutex: parseConflicts runs and diffDocument starts
HoldMutex ==
  /\ inflight' = Append(inflight, Started(TRUE, FALSE))
  /\ latest' = gitOutput
  /\ parseConflicts

\* the timer of the debounce fires: _refresh returns on a disposed buffer,
\* goes on with a free mutex and waits for a held one
TimerFires ==
  /\ refreshArmed
  /\ refreshArmed' = FALSE
  /\ IF disposed
       THEN UNCHANGED <<waiting, inflight, latest, conflicts, hasConflicts>>
     ELSE IF MutexHeld
       THEN /\ waiting < MaxWaiting
            /\ waiting' = waiting + 1
            /\ UNCHANGED <<inflight, latest, conflicts, hasConflicts>>
     ELSE /\ UNCHANGED waiting
          /\ HoldMutex
  /\ UNCHANGED <<parseVars, gitOutput, diffs, currentSigns, gitStatus, placedSigns, line, chunk,
                 config, stagedOutput, lastCommand, gitApply, errorMessage, rejected, reference,
                 docLines, cursor, wrapscan, warningMessage, managerVars, disposed, replaced>>

\* the mutex is released to a call of _refresh that waits for it
RefreshStart ==
  /\ waiting > 0
  /\ ~MutexHeld
  /\ waiting' = waiting - 1
  /\ HoldMutex
  /\ UNCHANGED <<parseVars, gitOutput, diffs, currentSigns, gitStatus, placedSigns, line, chunk,
                 config, commandVars, reference, docLines, cursor, wrapscan, warningMessage, managerVars,
                 disposed, replaced>>

\* diffDocument from the answer of getDiff on: updateGutters does nothing on a
\* disposed buffer
diffDocumentDone(res, force) ==
  IF ~res.defined \/ res.threw
    THEN UNCHANGED <<currentSigns, diffs, gitStatus, placedSigns>>
  ELSE IF Len(res.diffs) = 0
    THEN /\ currentSigns' = <<>>
         /\ diffs' = <<>>
         /\ setBufferStatus(<<>>)
         /\ placedSigns' = (IF config.enableGutters THEN <<>> ELSE placedSigns)
  ELSE IF equals(res.diffs, diffs)
    THEN UNCHANGED <<currentSigns, diffs, gitStatus, placedSigns>>
  ELSE /\ diffs' = res.diffs
       /\ setBufferStatus(StatusText(Counters(res.diffs)))
       /\ currentSigns' = SignsFrom(res.diffs, 1)
       /\ placedSigns' = (IF (config.realtimeGutters \/ force) /\ ~disposed /\ config.enableGutters
                          THEN PlaceAll(SignsFrom(res.diffs, 1)) ELSE placedSigns)

\* the call assigns this.diffs
Writes(res) ==
  /\ res.defined
  /\ ~res.threw
  /\ Len(res.diffs) = 0 \/ ~equals(res.diffs, diffs)

\* the calls left when the k-th has finished; the ones started before it have
\* seen a later call write
LeftAfter(k, wrote) ==
  [j \in 1..(Len(inflight) - 1) |->
     IF j < k THEN [inflight[j] EXCEPT !.late = inflight[j].late \/ wrote]
     ELSE inflight[j + 1]]

\* getDiff answers the k-th call in flight: diffDocument goes on to its end,
\* and _refresh releases the mutex
DiffFinish(k) ==
  LET call == inflight[k]
      res == DiffResults[call.snapshot]
  IN /\ k \in 1..Len(inflight)
     /\ diffDocumentDone(res, call.force)
     /\ inflight' = LeftAfter(k, Writes(res))
     /\ replaced' = (replaced \/ (call.late /\ Writes(res) /\ res.diffs # diffs))
     /\ UNCHANGED <<parseVars, gitOutput, line, chunk, config, commandVars, docVars, cursor,
                    wrapscan, warningMessage, managerVars, disposed, waiting, latest>>

\* git.toggleGutters with the gutters on: the signs are unplaced
ToggleOff ==
  /\ ~disposed
  /\ config.enableGutters
  /\ config' = [config EXCEPT !.enableGutters = FALSE]
  /\ placedSigns' = <<>>
  /\ UNCHANGED <<parseVars, gitOutput, diffs, currentSigns, gitStatus, line, chunk, commandVars,
                 docVars, extVars>>

\* git.toggleGutters with the gutters off: this.diffs = [] and diffDocument(true)
\* up to its await
ToggleOn ==
  /\ ~disposed
  /\ ~config.enableGutters
  /\ Cardinality({k \in 1..Len(inflight) : ~inflight[k].byRefresh}) < MaxToggles
  /\ config' = [config EXCEPT !.enableGutters = TRUE]
  /\ diffs' = <<>>
  /\ inflight' = Append(inflight, Started(FALSE, TRUE))
  /\ latest' = gitOutput
  /\ UNCHANGED <<parseVars, gitOutput, currentSigns, gitStatus, placedSigns, line, chunk,
                 commandVars, docVars, cursor, wrapscan, warningMessage, managerVars, disposed, waiting,
                 replaced>>

\* the document is closed: dispose. The variable of the buffer is emptied, the
\* field gitStatus is left as it is
Dispose ==
  /\ ~disposed
  /\ disposed' = TRUE
  /\ placedSigns' = <<>>
  /\ refreshArmed' = FALSE
  /\ diffs' = <<>>
  /\ conflicts' = <<>>
  /\ currentSigns' = <<>>
  /\ UNCHANGED <<parseVars, gitOutput, gitStatus, line, chunk, config, stagedOutput, lastCommand,
                 gitApply, errorMessage, rejected, reference, docLines, hasConflicts, cursor,
                 wrapscan, warningMessage, managerVars, waiting, inflight, latest, replaced>>

NextAsync ==
  \/ \E out \in AsyncOutputs : TextChangeEvent(out)
  \/ TimerFires
  \/ RefreshStart
  \/ \E k \in 1..Len(inflight) : DiffFinish(k)
  \/ ToggleOff
  \/ ToggleOn
  \/ Dispose

SpecAsync == InitAsync /\ [][NextAsync]_vars

---------------------------------------------------------------------------
(* Claims about the refreshes, the toggles and the closing of a buffer     *)
(* (SpecAsync).                                                            *)

\* every refresh asked for has run and every call of diffDocument has ended
AllFinished == inflight = <<>> /\ waiting = 0 /\ ~refreshArmed

\* C23: the calls of diffDocument never overlap, a call never replaces hunks
\* written by a call started after it, and when all have finished the cached
\* hunks are those of the call started last
C23_Original ==
  /\ Len(inflight) <= 1
  /\ ~replaced
  /\ AllFinished /\ ~disposed /\ DiffResults[latest].defined /\ ~DiffResults[latest].threw
       => diffs = DiffResults[latest].diffs

\* C24: once dispose has run, the hunks, the conflicts and the signs stay
\* cleared, no call of diffDocument starts, and neither the status nor the
\* placed signs are changed
C24_Original ==
  [][disposed =>
       /\ diffs' = <<>>
       /\ conflicts' = <<>>
       /\ currentSigns' = <<>>
       /\ Len(inflight') <= Len(inflight)
       /\ UNCHANGED <<gitStatus, placedSigns>>]_vars

---------------------------------------------------------------------------
(* SpecLive: the buffer of SpecAsync while it is open. A timer that is     *)
(* armed fires, a released mutex goes to a waiting _refresh, and getDiff   *)
(* answers every call.                                                     *)

NextLive ==
  \/ \E out \in AsyncOutputs : TextChangeEvent(out)
  \/ TimerFires
  \/ RefreshStart
  \/ \E k \in 1..Len(inflight) : DiffFinish(k)
  \/ ToggleOff
  \/ ToggleOn

\* the file is not unmerged
InitLive ==
  /\ AsyncIdle
  /\ docLines = <<>>
  /\ hasConflicts = FALSE
  /\ conflicts = <<>>

SpecLive ==
  /\ InitLive
  /\ [][NextLive]_vars
  /\ WF_vars(TimerFires)
  /\ WF_vars(RefreshStart)
  /\ WF_vars(\E k \in 1..Len(inflight) : DiffFinish(k))

\* the cached hunks are those of the diff of the content of the buffer
Reflected ==
  DiffResults[gitOutput].defined /\ ~DiffResults[gitOutput].threw
    => diffs = DiffResults[gitOutput].diffs

\* C21: when the changes of the text come to an end, the cached hunks do not
\* stay for good other than those of the diff of the last content
C21_Original == <>[][gitOutput' = gitOutput]_vars => []<>Reflected

---------------------------------------------------------------------------
(* SpecManager: the buffer manager and one document, which is opened,      *)
(* changed and closed while calls of service.createBuffer resolve.         *)

\* the calls of service.createBuffer that can be unresolved at a time
MaxPending == 2
\* the GitBuffers made for the document in a run
MaxCreated == 4

\* the constructor of the manager calls createBuffer for a document that is
\* open already
InitManager ==
  /\ diffStr = <<>>
  /\ parsed = NoCall
  /\ staged = NoStaged
  /\ gitOutput = <<>>
  /\ stagedOutput = <<>>
  /\ diffs = <<>>
  /\ currentSigns = <<>>
  /\ gitStatus = <<>>
  /\ placedSigns = <<>>
  /\ line = 0
  /\ chunk = 0
  /\ config = [enableGutters |-> TRUE, realtimeGutters |-> TRUE, conflict |-> [enabled |-> TRUE]]
  /\ lastCommand = ""
  /\ gitApply = NoApply
  /\ errorMessage = ""
  /\ rejected = FALSE
  /\ refreshArmed = FALSE
  /\ DocIdle
  /\ cursor = 0
  /\ wrapscan = FALSE
  /\ warningMessage = ""
  /\ disposed = FALSE
  /\ waiting = 0
  /\ inflight = <<>>
  /\ latest = [indexed |-> FALSE, changes |-> <<>>]
  /\ replaced = FALSE
  /\ docOpen \in BOOLEAN
  /\ pending = (IF docOpen THEN 1 ELSE 0)
  /\ created = <<>>
  /\ mapEntry = 0

\* onDidOpenTextDocument: createBuffer calls service.createBuffer
OpenDocument ==
  /\ ~docOpen
  /\ pending < MaxPending
  /\ docOpen' = TRUE
  /\ pending' = pending + 1
  /\ UNCHANGED <<parseVars, gitOutput, diffs, currentSigns, gitStatus, placedSigns, line, chunk,
                 config, commandVars, docVars, cursor, wrapscan, warningMessage, asyncVars,
                 created, mapEntry>>

\* service.createBuffer resolves, with a new GitBuffer or with undefined (no
\* repository, an ignored file), and the callback of createBuffer runs: nothing
\* without a buffer or with the document gone, buffers.set otherwise
CreateBufferDone(made) ==
  /\ pending > 0
  /\ Len(created) < MaxCreated
  /\ pending' = pending - 1
  /\ created' = (IF made THEN Append(created, FALSE) ELSE created)
  /\ mapEntry' = (IF ~made \/ ~docOpen THEN mapEntry ELSE Len(created) + 1)
  /\ UNCHANGED <<parseVars, gitOutput, diffs, currentSigns, gitStatus, placedSigns, line, chunk,
                 config, commandVars, docVars, cursor, wrapscan, warningMessage, asyncVars,
                 docOpen>>

\* onDidChangeTextDocument: the buffer of the map is refreshed
ChangeDocument ==
  /\ docOpen
  /\ mapEntry # 0
  /\ refreshArmed' = TRUE
  /\ UNCHANGED <<parseVars, gitOutput, diffs, currentSigns, gitStatus, placedSigns, line, chunk,
                 config, stagedOutput, lastCommand, gitApply, errorMessage, rejected, docVars,
                 extVars>>

\* onDidCloseTextDocument: the buffer of the map is disposed and taken out
CloseDocument ==
  /\ docOpen
  /\ docOpen' = FALSE
  /\ created' = (IF mapEntry # 0 THEN [created EXCEPT ![mapEntry] = TRUE] ELSE created)
  /\ mapEntry' = 0
  /\ refreshArmed' = FALSE
  /\ UNCHANGED <<parseVars, gitOutput, diffs, currentSigns, gitStatus, placedSigns, line, chunk,
                 config, stagedOutput, lastCommand, gitApply, errorMessage, rejected, docVars,
                 cursor, wrapscan, warningMessage, asyncVars, pending>>

NextManager ==
  \/ OpenDocument
  \/ \E made \in BOOLEAN : CreateBufferDone(made)
  \/ ChangeDocument
  \/ CloseDocument

SpecManager == InitManager /\ [][NextManager]_vars

\* C30: at most one GitBuffer of the document is not disposed, every GitBuffer
\* that is not the one of the map is disposed, and the map holds none for a
\* closed document
C30_Original ==
  /\ Cardinality({k \in 1..Len(created) : ~created[k]}) <= 1
  /\ \A k \in 1..Len(created) : k # mapEntry => created[k]
  /\ ~docOpen => mapEntry = 0

=============================================================================
